---- MODULE Spec2Model ----
(***************************************************************************)
(* A model of json-writer (src/src/lib.rs): the sinks (String and          *)
(* PrettyJSONWriter), the scoped writers JSONObjectWriter and              *)
(* JSONArrayWriter, the string escaper and the number formatting policy.   *)
(* Text is modelled as sequences of bytes (0..255), so that escaping and   *)
(* punctuation are computed, never assumed.                                *)
(***************************************************************************)
EXTENDS Integers, Sequences, FiniteSets, TLC

VARIABLES
    sink,       \* the output sink: its kind, buffer, indent unit and depth
    stack,      \* the live scoped writers, outermost first
    unwinding,  \* a panic is unwinding the stack of live writers
    hist,       \* history: one record per writer ever constructed
    einput,     \* escaper run: the input string
    eprefix,    \* escaper run: the output buffer before the call
    eoutput,    \* escaper run: the output buffer
    epc,        \* escaper run: "idle", "ready", "part" or "quoted"
    scan,       \* escaper run: the locals num_bytes_written and index of the loop
    nvalue,     \* number run: the float handed to write_json
    nprefix,    \* number run: the sink before the call
    noutput,    \* number run: the sink written to
    npc,        \* number run: "idle", "ready" or "done"
    ext,        \* flush run: the bytes the external writer has received
    flush,      \* flush run: the call of output_buffered_data just made
    shadow      \* twin run: the same program on a String that is never flushed

wvars == <<sink, stack, unwinding, hist>>
evars == <<einput, eprefix, eoutput, epc, scan>>
nvars == <<nvalue, nprefix, noutput, npc>>
fvars == <<ext, flush, shadow>>
vars ==
    <<sink, stack, unwinding, hist, einput, eprefix, eoutput, epc, scan, nvalue, nprefix, noutput,
      npc, ext, flush, shadow>>

----------------------------------------------------------------------------
(* Bounds of the model. *)

\* Writers constructed in one run (root and nested).
MaxWriters == 3
\* Member operations (value, object, array) in one run, over all writers.
MaxOps == 3
\* Length of the sampled escaper inputs, in characters.
MaxEscLen == 3
\* calls of output_buffered_data in one run
MaxFlushes == 2

----------------------------------------------------------------------------
(* Bytes. *)

Bytes == 0..255

LBRACE == 123
RBRACE == 125
LBRACKET == 91
RBRACKET == 93
COMMA == 44
COLON == 58
QUOTE == 34
BACKSLASH == 92
SLASH == 47
NEWLINE == 10
SPACE == 32
TAB == 9

\* "null", "true", "false" as bytes
NullText == <<110, 117, 108, 108>>
TrueText == <<116, 114, 117, 101>>
FalseText == <<102, 97, 108, 115, 101>>

RECURSIVE Repeat(_, _)
\* n copies of the text s
Repeat(s, n) == IF n <= 0 THEN <<>> ELSE s \o Repeat(s, n - 1)

----------------------------------------------------------------------------
(* The escaper: get_replacements, REPLACEMENTS, HEX,                       *)
(* write_part_of_string_impl, write_string, write_part_of_string.          *)

\* get_replacements: 'u' for 0..0x1F, then the overrides, in the code's order
get_replacements ==
    LET r0 == [i \in Bytes |-> IF i < 32 THEN 117 ELSE 0]
    IN  [r0 EXCEPT ![34] = 34, ![92] = 92, ![47] = 47, ![8] = 98, ![12] = 102,
                   ![10] = 110, ![13] = 114, ![9] = 116, ![0] = 117]

\* Variant of the table: form feed gets the letter of backspace.
REPLACEMENTS_ff == [get_replacements EXCEPT ![12] = 98]

REPLACEMENTS == get_replacements

\* b"0123456789ABCDEF", indexed from 0 by HEX[i + 1]
HEX == <<48, 49, 50, 51, 52, 53, 54, 55, 56, 57, 65, 66, 67, 68, 69, 70>>

\* Variant of the \u00XX escape: lower-case hex digits.
HexEscape_lower(cur_byte) ==
    LET lower(d) == IF d >= 65 THEN d + 32 ELSE d
    IN  <<BACKSLASH, 117, 48, 48, lower(HEX[((cur_byte \div 16) % 16) + 1]),
          lower(HEX[(cur_byte % 16) + 1])>>

\* the \u00XX escape of a byte
HexEscape(cur_byte) ==
    <<BACKSLASH, 117, 48, 48, HEX[((cur_byte \div 16) % 16) + 1], HEX[(cur_byte % 16) + 1]>>

\* the two-character escape
ShortEscape(replacement) == <<BACKSLASH, replacement>>

RECURSIVE escape_loop(_, _, _, _)
\* the while loop of write_part_of_string_impl and the copy of the last run
escape_loop(output_buffer, bytes, num_bytes_written, index) ==
    IF index < Len(bytes)
    THEN LET cur_byte == bytes[index + 1]
             replacement == REPLACEMENTS[cur_byte]
         IN  IF replacement # 0
             THEN LET o1 == IF num_bytes_written < index
                            THEN output_buffer \o SubSeq(bytes, num_bytes_written + 1, index)
                            ELSE output_buffer
                      o2 == IF replacement = 117
                            THEN o1 \o HexEscape(cur_byte)
                            ELSE o1 \o ShortEscape(replacement)
                  IN  escape_loop(o2, bytes, index + 1, index + 1)
             ELSE escape_loop(output_buffer, bytes, num_bytes_written, index + 1)
    ELSE IF num_bytes_written < Len(bytes)
         THEN output_buffer \o SubSeq(bytes, num_bytes_written + 1, Len(bytes))
         ELSE output_buffer

write_part_of_string_impl(output_buffer, input) == escape_loop(output_buffer, input, 0, 0)

write_part_of_string(output_buffer, input) == write_part_of_string_impl(output_buffer, input)

\* Variant of write_string: the closing quote is pushed before the
\* escaped input.
write_string_quotes_first(output_buffer, input) ==
    write_part_of_string_impl(output_buffer \o <<QUOTE, QUOTE>>, input)

write_string(output_buffer, input) ==
    write_part_of_string_impl(output_buffer \o <<QUOTE>>, input) \o <<QUOTE>>

----------------------------------------------------------------------------
(* Sinks. A sink is [kind, buffer, indent, depth]; kind "String" is the    *)
(* compact sink (impl JSONWriter for String), kind "Pretty" is             *)
(* PrettyJSONWriter. indent and depth are only read by the pretty sink.    *)

NewString == [kind |-> "String", buffer |-> <<>>, indent |-> <<>>, depth |-> 0]

\* PrettyJSONWriter::with_indent on an empty buffer
PrettyJSONWriter_with_indent(indent) ==
    [kind |-> "Pretty", buffer |-> <<>>, indent |-> indent, depth |-> 0]

\* PrettyJSONWriter::new: two spaces
PrettyJSONWriter_new == PrettyJSONWriter_with_indent(<<SPACE, SPACE>>)

push(s, byte) == [s EXCEPT !.buffer = @ \o <<byte>>]
push_str(s, text) == [s EXCEPT !.buffer = @ \o text]

\* impl JSONWriter for String
String_json_string(s, value) == [s EXCEPT !.buffer = write_string(@, value)]
String_json_fragment(s, value) == push_str(s, value)
String_json_begin_object(s) == push(s, LBRACE)
\* Variant of json_end_object: the brace of a non-empty object takes the
\* place of the last byte of the buffer.
String_json_end_object_patch(s, empty) ==
    IF empty \/ s.buffer = <<>> THEN push(s, RBRACE)
    ELSE push([s EXCEPT !.buffer = SubSeq(@, 1, Len(@) - 1)], RBRACE)
String_json_end_object(s, empty) == push(s, RBRACE)
String_json_begin_array(s) == push(s, LBRACKET)
String_json_end_array(s, empty) == push(s, RBRACKET)
\* Variant of json_begin_array_value: a space follows the comma.
String_json_begin_array_value_space(s, first) == IF ~first THEN push(push(s, COMMA), SPACE) ELSE s
String_json_begin_array_value(s, first) == IF ~first THEN push(s, COMMA) ELSE s
\* Variant of json_object_key: the test of first is inverted.
String_json_object_key_inverted(s, key, first) ==
    LET s1 == IF first THEN push(s, COMMA) ELSE s
        s2 == [s1 EXCEPT !.buffer = write_string(@, key)]
    IN  push(s2, COLON)
String_json_object_key(s, key, first) ==
    LET s1 == IF ~first THEN push(s, COMMA) ELSE s
        s2 == [s1 EXCEPT !.buffer = write_string(@, key)]
    IN  push(s2, COLON)

\* impl JSONWriter for PrettyJSONWriter
\* Variant of write_indent: one indent unit whatever the depth.
write_indent_once(s) == push_str(s, s.indent)

write_indent(s) == push_str(s, Repeat(s.indent, s.depth))
Pretty_json_begin_object(s) == push([s EXCEPT !.depth = @ + 1], LBRACE)
\* Variant of json_end_object: the newline and indent are written for an
\* empty object too.
Pretty_json_end_object_always(s, empty) ==
    push(write_indent(push([s EXCEPT !.depth = @ - 1], NEWLINE)), RBRACE)
Pretty_json_end_object(s, empty) ==
    LET s1 == [s EXCEPT !.depth = @ - 1]
        s2 == IF ~empty THEN write_indent(push(s1, NEWLINE)) ELSE s1
    IN  push(s2, RBRACE)
Pretty_json_begin_array(s) == push([s EXCEPT !.depth = @ + 1], LBRACKET)
\* Variant of json_end_array: the newline and the indent are written
\* before depth is decremented.
Pretty_json_end_array_indent_first(s, empty) ==
    LET s1 == IF ~empty THEN write_indent(push(s, NEWLINE)) ELSE s
    IN  push([s1 EXCEPT !.depth = @ - 1], RBRACKET)
Pretty_json_end_array(s, empty) ==
    LET s1 == [s EXCEPT !.depth = @ - 1]
        s2 == IF ~empty THEN write_indent(push(s1, NEWLINE)) ELSE s1
    IN  push(s2, RBRACKET)
\* Variant of json_begin_array_value: the comma is written before the first
\* element as well.
Pretty_json_begin_array_value_always_comma(s, first) ==
    write_indent(push(push(s, COMMA), NEWLINE))

Pretty_json_begin_array_value(s, first) ==
    write_indent(push_str(s, IF first THEN <<NEWLINE>> ELSE <<COMMA, NEWLINE>>))
Pretty_json_object_key(s, key, first) ==
    LET s1 == write_indent(push_str(s, IF first THEN <<NEWLINE>> ELSE <<COMMA, NEWLINE>>))
        s2 == [s1 EXCEPT !.buffer = write_string(@, key)]
    IN  push_str(s2, <<COLON, SPACE>>)
Pretty_json_string(s, value) == [s EXCEPT !.buffer = write_string(@, value)]
Pretty_json_fragment(s, value) == push_str(s, value)

\* trait JSONWriter: the call through the trait reaches the sink's own method
json_fragment(s, value) ==
    IF s.kind = "String" THEN String_json_fragment(s, value) ELSE Pretty_json_fragment(s, value)
json_string(s, value) ==
    IF s.kind = "String" THEN String_json_string(s, value) ELSE Pretty_json_string(s, value)
json_begin_object(s) ==
    IF s.kind = "String" THEN String_json_begin_object(s) ELSE Pretty_json_begin_object(s)
json_end_object(s, empty) ==
    IF s.kind = "String" THEN String_json_end_object(s, empty) ELSE Pretty_json_end_object(s, empty)
json_begin_array(s) ==
    IF s.kind = "String" THEN String_json_begin_array(s) ELSE Pretty_json_begin_array(s)
json_end_array(s, empty) ==
    IF s.kind = "String" THEN String_json_end_array(s, empty) ELSE Pretty_json_end_array(s, empty)
json_begin_array_value(s, first) ==
    IF s.kind = "String" THEN String_json_begin_array_value(s, first)
    ELSE Pretty_json_begin_array_value(s, first)
json_object_key(s, key, first) ==
    IF s.kind = "String" THEN String_json_object_key(s, key, first)
    ELSE Pretty_json_object_key(s, key, first)

\* trait JSONWriter: the default methods neither sink overrides
json_null(s) == json_fragment(s, NullText)
json_bool(s, value) == json_fragment(s, IF value THEN TrueText ELSE FalseText)
json_number_str(s, value) == json_fragment(s, value)

\* trait JSONWriter: the default bodies of the six structural methods, as a
\* sink runs them that supplies json_string and json_fragment only; flag
\* is the argument first (or empty, which the defaults do not read)
JSONWriter_default(method, s, key, flag) ==
    CASE method = "json_begin_object" -> json_fragment(s, <<LBRACE>>)
      [] method = "json_end_object" -> json_fragment(s, <<RBRACE>>)
      [] method = "json_begin_array" -> json_fragment(s, <<LBRACKET>>)
      [] method = "json_end_array" -> json_fragment(s, <<RBRACKET>>)
      [] method = "json_begin_array_value" -> IF ~flag THEN json_fragment(s, <<COMMA>>) ELSE s
      [] method = "json_object_key" ->
            LET s1 == IF ~flag THEN json_fragment(s, <<COMMA>>) ELSE s
            IN  json_fragment(json_string(s1, key), <<COLON>>)

----------------------------------------------------------------------------
(* Numbers. A double is [sign, exp, hi, lo]: the sign bit, the 11 exponent *)
(* bits and the 52 mantissa bits as two 26-bit halves. A float (f32) is    *)
(* [sign, exp, man]: the sign bit, 8 exponent bits, 23 mantissa bits.      *)

\* f64::is_finite: the exponent field is not all ones
is_finite(value) == value.exp # 2047

\* ryu::Buffer::format_finite on the doubles the model draws: the shortest
\* round-trip text ryu gives for each bit pattern
RyuTable == {
    \* 0.0
    [sign |-> 0, exp |-> 0, hi |-> 0, lo |-> 0,
     text |-> <<48, 46, 48>>],
    \* -0.0
    [sign |-> 1, exp |-> 0, hi |-> 0, lo |-> 0,
     text |-> <<45, 48, 46, 48>>],
    \* 1.0
    [sign |-> 0, exp |-> 1023, hi |-> 0, lo |-> 0,
     text |-> <<49, 46, 48>>],
    \* -1.0
    [sign |-> 1, exp |-> 1023, hi |-> 0, lo |-> 0,
     text |-> <<45, 49, 46, 48>>],
    \* 2.0
    [sign |-> 0, exp |-> 1024, hi |-> 0, lo |-> 0,
     text |-> <<50, 46, 48>>],
    \* -2.0
    [sign |-> 1, exp |-> 1024, hi |-> 0, lo |-> 0,
     text |-> <<45, 50, 46, 48>>],
    \* 0.5
    [sign |-> 0, exp |-> 1022, hi |-> 0, lo |-> 0,
     text |-> <<48, 46, 53>>],
    \* 3.141592653589793
    [sign |-> 0, exp |-> 1024, hi |-> 38305493, lo |-> 4467992,
     text |-> <<51, 46, 49, 52, 49, 53, 57, 50, 54, 53, 51, 53, 56, 57, 55, 57, 51>>],
    \* 0.1
    [sign |-> 0, exp |-> 1019, hi |-> 40265318, lo |-> 26843546,
     text |-> <<48, 46, 49>>],
    \* -0.1
    [sign |-> 1, exp |-> 1019, hi |-> 40265318, lo |-> 26843546,
     text |-> <<45, 48, 46, 49>>],
    \* 1.5e30
    [sign |-> 0, exp |-> 1123, hi |-> 12300474, lo |-> 54028719,
     text |-> <<49, 46, 53, 101, 51, 48>>],
    \* -2.220446049250313e-16
    [sign |-> 1, exp |-> 971, hi |-> 0, lo |-> 0,
     text |-> <<45, 50, 46, 50, 50, 48, 52, 52, 54, 48, 52, 57, 50, 53, 48, 51, 49, 51, 101, 45, 49, 54>>],
    \* 1e16
    [sign |-> 0, exp |-> 1076, hi |-> 7396941, lo |-> 65044480,
     text |-> <<49, 101, 49, 54>>],
    \* 1000000000000000.0
    [sign |-> 0, exp |-> 1072, hi |-> 52100425, lo |-> 36962304,
     text |-> <<49, 48, 48, 48, 48, 48, 48, 48, 48, 48, 48, 48, 48, 48, 48, 48, 46, 48>>],
    \* 100.0
    [sign |-> 0, exp |-> 1029, hi |-> 37748736, lo |-> 0,
     text |-> <<49, 48, 48, 46, 48>>],
    \* 10000000000.0
    [sign |-> 0, exp |-> 1056, hi |-> 11016136, lo |-> 0,
     text |-> <<49, 48, 48, 48, 48, 48, 48, 48, 48, 48, 48, 46, 48>>],
    \* 1e-5
    [sign |-> 0, exp |-> 1006, hi |-> 20852066, lo |-> 14903537,
     text |-> <<49, 101, 45, 53>>],
    \* 5e-324
    [sign |-> 0, exp |-> 0, hi |-> 0, lo |-> 1,
     text |-> <<53, 101, 45, 51, 50, 52>>],
    \* 0.10000000149011612
    [sign |-> 0, exp |-> 1019, hi |-> 40265320, lo |-> 0,
     text |-> <<48, 46, 49, 48, 48, 48, 48, 48, 48, 48, 49, 52, 57, 48, 49, 49, 54, 49, 50>>],
    \* 1.401298464324817e-45
    [sign |-> 0, exp |-> 874, hi |-> 0, lo |-> 0,
     text |-> <<49, 46, 52, 48, 49, 50, 57, 56, 52, 54, 52, 51, 50, 52, 56, 49, 55, 101, 45, 52, 53>>],
    \* 3.4028234663852886e38
    [sign |-> 0, exp |-> 1150, hi |-> 67108856, lo |-> 0,
     text |-> <<51, 46, 52, 48, 50, 56, 50, 51, 52, 54, 54, 51, 56, 53, 50, 56, 56, 54, 101, 51, 56>>]
}

format_finite(value) ==
    (CHOOSE r \in RyuTable :
        r.sign = value.sign /\ r.exp = value.exp /\ r.hi = value.hi /\ r.lo = value.lo).text

\* str::ends_with
ends_with(text, suffix) ==
    /\ Len(text) >= Len(suffix)
    /\ SubSeq(text, Len(text) - Len(suffix) + 1, Len(text)) = suffix

\* Variant of the strip: any trailing zero is taken for the ".0".
strip_zero(result) ==
    IF ends_with(result, <<48>>) THEN SubSeq(result, 1, Len(result) - 2) ELSE result

\* Variant of the strip: the test for the ".0" ending is left out.
strip_last_two(result) == SubSeq(result, 1, Len(result) - 2)

\* the ".0" strip of json_number_f64
strip_dot_zero(result) ==
    IF ends_with(result, <<46, 48>>) THEN SubSeq(result, 1, Len(result) - 2) ELSE result

\* Variant of json_number_f64: a non-finite value is written by name.
json_number_f64_named(s, value) ==
    IF ~is_finite(value)
    THEN json_fragment(s, IF value.hi = 0 /\ value.lo = 0 THEN <<105, 110, 102>> ELSE <<78, 97, 78>>)
    ELSE json_number_str(s, strip_dot_zero(format_finite(value)))

\* JSONWriter::json_number_f64 (default method, used by both sinks)
json_number_f64(s, value) ==
    IF ~is_finite(value)
    THEN json_null(s)
    ELSE json_number_str(s, strip_dot_zero(format_finite(value)))

RECURSIVE HighBit(_)
\* index of the highest set bit of n > 0
HighBit(n) == IF n <= 1 THEN 0 ELSE 1 + HighBit(n \div 2)

RECURSIVE Pow2(_)
Pow2(n) == IF n <= 0 THEN 1 ELSE 2 * Pow2(n - 1)

\* `self as f64` for an f32: the widening conversion
f32_as_f64(x) ==
    IF x.exp = 255
    THEN [sign |-> x.sign, exp |-> 2047, hi |-> x.man * 8, lo |-> 0]
    ELSE IF x.exp = 0 /\ x.man = 0
    THEN [sign |-> x.sign, exp |-> 0, hi |-> 0, lo |-> 0]
    ELSE IF x.exp = 0
    THEN LET k == HighBit(x.man)
         IN  [sign |-> x.sign, exp |-> k + 874,
              hi |-> (x.man - Pow2(k)) * Pow2(26 - k), lo |-> 0]
    ELSE [sign |-> x.sign, exp |-> x.exp + 896, hi |-> x.man * 8, lo |-> 0]

RECURSIVE Digits(_)
\* the decimal digits of n >= 0
Digits(n) == IF n < 10 THEN <<48 + n>> ELSE Digits(n \div 10) \o <<48 + (n % 10)>>

\* itoa::Buffer::format
itoa_format(n) == IF n < 0 THEN <<45>> \o Digits(0 - n) ELSE Digits(n)

----------------------------------------------------------------------------
(* Integers (JSONWriterValue for u8 .. i128). An integer is [ty, bits]:    *)
(* its type and its two's complement bit pattern as limbs of 16 bits,      *)
(* least significant first (one limb of 8 bits for u8 and i8).             *)

IntTypes == {"u8", "i8", "u16", "i16", "u32", "i32", "u64", "i64", "u128", "i128"}
IntSigned(ty) == ty \in {"i8", "i16", "i32", "i64", "i128"}
IntWidth(ty) ==
    CASE ty \in {"u8", "i8"} -> 8
      [] ty \in {"u16", "i16"} -> 16
      [] ty \in {"u32", "i32"} -> 32
      [] ty \in {"u64", "i64"} -> 64
      [] ty \in {"u128", "i128"} -> 128
LimbBase(ty) == IF IntWidth(ty) = 8 THEN 256 ELSE 65536
IntLimbs(ty) == IF IntWidth(ty) = 8 THEN 1 ELSE IntWidth(ty) \div 16

\* self < 0
is_negative(ty, bits) == IntSigned(ty) /\ bits[Len(bits)] >= LimbBase(ty) \div 2

RECURSIVE AddCarry(_, _, _)
\* bits + carry, wrapping at the width
AddCarry(bits, base, carry) ==
    IF bits = <<>> THEN <<>>
    ELSE <<(bits[1] + carry) % base>> \o AddCarry(Tail(bits), base, (bits[1] + carry) \div base)

\* (!self).wrapping_add(1): the magnitude of a negative value
wrapping_neg(ty, bits) ==
    AddCarry([i \in 1..Len(bits) |-> LimbBase(ty) - 1 - bits[i]], LimbBase(ty), 1)

RECURSIVE DivRem10000(_, _)
\* quotient and remainder of an unsigned word by 10000, by long division
\* from the most significant limb
DivRem10000(bits, base) ==
    IF bits = <<>> THEN [quot |-> <<>>, rem |-> 0]
    ELSE CHOOSE res \in {[quot |-> <<(up.rem * base + bits[1]) \div 10000>> \o up.quot,
                          rem |-> (up.rem * base + bits[1]) % 10000] :
                            up \in {DivRem10000(Tail(bits), base)}} : TRUE

\* n >= 10000 for an unsigned word n
AtLeast10000(bits) == bits[1] >= 10000 \/ \E i \in 2..Len(bits) : bits[i] # 0

TwoDigits(n) == <<48 + (n \div 10), 48 + (n % 10)>>

\* the tail of itoa: n < 10000 is written with no leading zero
itoa_last(n) ==
    IF n >= 100
    THEN (IF n \div 100 < 10 THEN <<48 + (n \div 100)>> ELSE TwoDigits(n \div 100))
            \o TwoDigits(n % 100)
    ELSE IF n < 10 THEN <<48 + n>> ELSE TwoDigits(n)

RECURSIVE itoa_unsigned(_, _)
\* the loop of itoa: four digits at a time while n >= 10000
itoa_unsigned(bits, base) ==
    IF ~AtLeast10000(bits) THEN itoa_last(bits[1])
    ELSE CHOOSE res \in {itoa_unsigned(d.quot, base)
                            \o TwoDigits(d.rem \div 100) \o TwoDigits(d.rem % 100) :
                            d \in {DivRem10000(bits, base)}} : TRUE

\* itoa::Buffer::format for an integer of type ty
itoa_format_integer(ty, bits) ==
    IF is_negative(ty, bits)
    THEN <<45>> \o itoa_unsigned(wrapping_neg(ty, bits), LimbBase(ty))
    ELSE itoa_unsigned(bits, LimbBase(ty))

SignedOf(ty) ==
    CASE ty = "u8" -> "i8" [] ty = "u16" -> "i16" [] ty = "u32" -> "i32"
      [] ty = "u64" -> "i64" [] ty = "u128" -> "i128" [] OTHER -> ty

\* Variant of write_json for the integers: the value is cast to the signed
\* type of its width before it is formatted.
write_json_integer_as_signed(v, s) ==
    json_number_str(s, itoa_format_integer(SignedOf(v.ty), v.bits))

\* JSONWriterValue::write_json for u8 .. i128
write_json_integer(v, s) == json_number_str(s, itoa_format_integer(v.ty, v.bits))

----------------------------------------------------------------------------
(* Values (JSONWriterValue). A value is [t, n, s, b, f]: its type and the  *)
(* payload field the type reads.                                           *)

NoF64 == [sign |-> 0, exp |-> 0, hi |-> 0, lo |-> 0]
NullValue == [t |-> "null", n |-> 0, s |-> <<>>, b |-> FALSE, f |-> NoF64]
BoolValue(b) == [t |-> "bool", n |-> 0, s |-> <<>>, b |-> b, f |-> NoF64]
I32Value(n) == [t |-> "i32", n |-> n, s |-> <<>>, b |-> FALSE, f |-> NoF64]
StrValue(s) == [t |-> "str", n |-> 0, s |-> s, b |-> FALSE, f |-> NoF64]
F64Value(f) == [t |-> "f64", n |-> 0, s |-> <<>>, b |-> FALSE, f |-> f]

\* JSONWriterValue::write_json for Null, bool, i32, &str and f64
write_json(v, s) ==
    CASE v.t = "null" -> json_null(s)
      [] v.t = "bool" -> json_bool(s, v.b)
      [] v.t = "i32" -> json_number_str(s, itoa_format(v.n))
      [] v.t = "str" -> json_string(s, v.s)
      [] v.t = "f64" -> json_number_f64(s, v.f)

----------------------------------------------------------------------------
(* Scoped writers. A writer is [kind, empty, id]; kind is "object" or      *)
(* "array", id names it in the history. Each method gives the writer and   *)
(* the sink after the call.                                                *)

JSONObjectWriter_new(s, id) ==
    [w |-> [kind |-> "object", empty |-> TRUE, id |-> id], s |-> json_begin_object(s)]

JSONArrayWriter_new(s, id) ==
    [w |-> [kind |-> "array", empty |-> TRUE, id |-> id], s |-> json_begin_array(s)]

\* Variant of write_key: the empty flag is not cleared.
JSONObjectWriter_write_key_keep(w, s, key) ==
    [w |-> w, s |-> json_object_key(s, key, w.empty)]

\* Variant of write_key: a null is written where the value is missing.
JSONObjectWriter_write_key_null(w, s, key) ==
    [w |-> [w EXCEPT !.empty = FALSE], s |-> json_null(json_object_key(s, key, w.empty))]

JSONObjectWriter_write_key(w, s, key) ==
    [w |-> [w EXCEPT !.empty = FALSE], s |-> json_object_key(s, key, w.empty)]

\* Variant of write_comma: the empty flag is not cleared.
JSONArrayWriter_write_comma_keep(w, s) ==
    [w |-> w, s |-> json_begin_array_value(s, w.empty)]

JSONArrayWriter_write_comma(w, s) ==
    [w |-> [w EXCEPT !.empty = FALSE], s |-> json_begin_array_value(s, w.empty)]

\* write_key for an object writer, write_comma for an array writer
write_prefix(w, s, key) ==
    IF w.kind = "object" THEN JSONObjectWriter_write_key(w, s, key)
    ELSE JSONArrayWriter_write_comma(w, s)

\* JSONObjectWriter::value / JSONArrayWriter::value
value(w, s, key, v) ==
    LET r == write_prefix(w, s, key)
    IN  [w |-> r.w, s |-> write_json(v, r.s)]

\* JSONObjectWriter::object / JSONArrayWriter::object
object(w, s, key, id) ==
    LET r == write_prefix(w, s, key)
        c == JSONObjectWriter_new(r.s, id)
    IN  [w |-> r.w, child |-> c.w, s |-> c.s]

\* JSONObjectWriter::array / JSONArrayWriter::array
array(w, s, key, id) ==
    LET r == write_prefix(w, s, key)
        c == JSONArrayWriter_new(r.s, id)
    IN  [w |-> r.w, child |-> c.w, s |-> c.s]

\* Variant of drop: each Drop impl calls the other kind's end method.
drop_mismatch(w, s) ==
    IF w.kind = "object" THEN json_end_array(s, w.empty) ELSE json_end_object(s, w.empty)

\* Drop for JSONObjectWriter / Drop for JSONArrayWriter
drop(w, s) ==
    IF w.kind = "object" THEN json_end_object(s, w.empty) ELSE json_end_array(s, w.empty)

\* Variant of end: end writes the closing bracket itself and the writer is
\* then dropped as well.
end_twice(w, s) == drop(w, drop(w, s))

\* JSONObjectWriter::end / JSONArrayWriter::end: drop(self)
end(w, s) == drop(w, s)

----------------------------------------------------------------------------
(* Flushing: output_buffered_data hands the buffer of a String sink to an  *)
(* external writer (std::io::Write). The outcome of the external write is  *)
(* an input: [ok, err, part], where a failing write_all may have passed on *)
(* the first part bytes of the buffer before it failed.                    *)

\* writer.write_all(bytes) on an external writer that has received `received`
write_all(received, bytes, outcome) ==
    IF outcome.ok
    THEN [received |-> received \o bytes, result |-> "Ok"]
    ELSE [received |-> received \o SubSeq(bytes, 1, (Len(bytes) * outcome.part) \div 2),
          result |-> outcome.err]

\* Variant of output_buffer_to: the length is read after the buffer is
\* cleared.
output_buffer_to_len_after_clear(buffer, received, outcome) ==
    CHOOSE res \in {IF w.result = "Ok"
                    THEN [buffer |-> <<>>, received |-> w.received,
                          ret |-> [ok |-> TRUE, n |-> Len(<<>>), err |-> "none"]]
                    ELSE [buffer |-> buffer, received |-> w.received,
                          ret |-> [ok |-> FALSE, n |-> 0, err |-> w.result]] :
                        w \in {write_all(received, buffer, outcome)}} : TRUE

\* output_buffer_to: the buffer and the external writer after the call, and
\* the Result returned (Ok(n) or Err(err))
output_buffer_to(buffer, received, outcome) ==
    CHOOSE res \in {IF w.result = "Ok"
                    THEN [buffer |-> <<>>, received |-> w.received,
                          ret |-> [ok |-> TRUE, n |-> Len(buffer), err |-> "none"]]
                    ELSE [buffer |-> buffer, received |-> w.received,
                          ret |-> [ok |-> FALSE, n |-> 0, err |-> w.result]] :
                        w \in {write_all(received, buffer, outcome)}} : TRUE

\* Variant of output_buffered_data: a successful flush marks the writer as
\* having no member yet.
output_buffered_data_reset(w, s, received, outcome) ==
    CHOOSE res \in {[w |-> [w EXCEPT !.empty = IF r.ret.ok THEN TRUE ELSE @],
                     s |-> [s EXCEPT !.buffer = r.buffer],
                     received |-> r.received, ret |-> r.ret] :
                        r \in {output_buffer_to(s.buffer, received, outcome)}} : TRUE

\* JSONObjectWriter::output_buffered_data / JSONArrayWriter::output_buffered_data
output_buffered_data(w, s, received, outcome) ==
    CHOOSE res \in {[w |-> w, s |-> [s EXCEPT !.buffer = r.buffer],
                     received |-> r.received, ret |-> r.ret] :
                        r \in {output_buffer_to(s.buffer, received, outcome)}} : TRUE

----------------------------------------------------------------------------
(* The writer machine: a program that constructs writers on one sink and   *)
(* calls their methods. hist keeps, per writer, where its brackets went    *)
(* and what its member operations were.                                    *)

\* "a" and "\"{" (a key the escaper must change)
Keys == {<<97>>, <<QUOTE, LBRACE>>}
\* an array member has no key
NoKey == <<>>
\* 42 and the string ]" (a bracket and a quote inside a string)
Values == {I32Value(42), StrValue(<<RBRACKET, QUOTE>>)}
\* the compact sink, the default pretty sink, a pretty sink with three spaces
Sinks == {NewString, PrettyJSONWriter_new, PrettyJSONWriter_with_indent(<<SPACE, SPACE, SPACE>>)}

Kinds == {"object", "array"}
OpenByte(kind) == IF kind = "object" THEN LBRACE ELSE LBRACKET
CloseByte(kind) == IF kind = "object" THEN RBRACE ELSE RBRACKET
KeysFor(w) == IF w.kind = "object" THEN Keys ELSE {NoKey}

RemoveAt(seq, i) == SubSeq(seq, 1, i - 1) \o SubSeq(seq, i + 1, Len(seq))
CountByte(text, b) == Cardinality({k \in 1..Len(text) : text[k] = b})
\* what a call appended to the buffer
Appended(old, new) == SubSeq(new.buffer, Len(old.buffer) + 1, Len(new.buffer))

RECURSIVE TotalMembers(_)
\* member operations so far, over all writers
TotalMembers(h) == IF h = <<>> THEN 0 ELSE Len(h[Len(h)].members) + TotalMembers(SubSeq(h, 1, Len(h) - 1))

\* The borrow of object()/array() (&'a mut self): the writer at position i
\* of the stack can be used only while no writer spawned after it is alive.
\* Variant of CanUse: object()/array() take no exclusive borrow.
CanUse_any(i) == i \in 1..Len(stack)

CanUse(i) == i = Len(stack)

EIdle ==
    /\ einput = <<>> /\ eprefix = <<>> /\ eoutput = <<>> /\ epc = "idle"
    /\ scan = [num_bytes_written |-> 0, index |-> 0]
NIdle ==
    /\ nvalue = [ty |-> "none", sign |-> 0, exp |-> 0, hi |-> 0, lo |-> 0, man |-> 0]
    /\ nprefix = NewString
    /\ noutput = NewString
    /\ npc = "idle"
WIdle == sink = NewString /\ stack = <<>> /\ unwinding = FALSE /\ hist = <<>>

NoResult == [ok |-> TRUE, n |-> 0, err |-> "none"]
NoFlush ==
    [called |-> FALSE, ret |-> NoResult, raised |-> "none", before |-> <<>>, after |-> <<>>,
     extBefore |-> <<>>, extAfter |-> <<>>]
NoShadow == [sink |-> NewString, stack |-> <<>>, ops |-> 0, made |-> 0, flushes |-> 0, failed |-> FALSE]
FIdle == ext = <<>> /\ flush = NoFlush /\ shadow = NoShadow

Init ==
    /\ sink \in Sinks
    /\ stack = <<>>
    /\ unwinding = FALSE
    /\ hist = <<>>
    /\ EIdle
    /\ NIdle
    /\ FIdle

NewHist(kind, parent, level, openAt) ==
    [kind |-> kind, parent |-> parent, level |-> level, openAt |-> openAt,
     closeAt |-> 0, closes |-> 0, ended |-> FALSE, members |-> <<>>]

Member(start, key, v, child, stop) ==
    [start |-> start, key |-> key, val |-> v, child |-> child, stop |-> stop]

\* JSONObjectWriter::new / JSONArrayWriter::new on the fresh sink: the root
\* writer of the one document the program writes
New(kind) ==
    /\ ~unwinding
    /\ stack = <<>>
    /\ hist = <<>>
    /\ LET id == Len(hist) + 1
           r == IF kind = "object" THEN JSONObjectWriter_new(sink, id)
                ELSE JSONArrayWriter_new(sink, id)
       IN  /\ sink' = r.s
           /\ stack' = <<r.w>>
           /\ hist' = Append(hist, NewHist(kind, 0, 1, Len(r.s.buffer)))
    /\ unwinding' = unwinding
    /\ UNCHANGED <<evars, nvars, fvars>>

\* value(key, v) on the writer at stack position i
Value(i, key, v) ==
    /\ ~unwinding
    /\ CanUse(i)
    /\ TotalMembers(hist) < MaxOps
    /\ LET w == stack[i]
           r == value(w, sink, key, v)
       IN  /\ sink' = r.s
           /\ stack' = [stack EXCEPT ![i] = r.w]
           /\ hist' = [hist EXCEPT ![w.id].members =
                          Append(@, Member(Len(sink.buffer), key, v, 0, Len(r.s.buffer)))]
    /\ unwinding' = unwinding
    /\ UNCHANGED <<evars, nvars, fvars>>

\* object(key) / array(key) on the writer at stack position i
Nested(i, key, kind) ==
    /\ ~unwinding
    /\ CanUse(i)
    /\ Len(hist) < MaxWriters
    /\ TotalMembers(hist) < MaxOps
    /\ LET w == stack[i]
           id == Len(hist) + 1
           r == IF kind = "object" THEN object(w, sink, key, id) ELSE array(w, sink, key, id)
           h1 == [hist EXCEPT ![w.id].members =
                     Append(@, Member(Len(sink.buffer), key, NullValue, id, Len(r.s.buffer)))]
       IN  /\ sink' = r.s
           /\ stack' = Append([stack EXCEPT ![i] = r.w], r.child)
           /\ hist' = Append(h1, NewHist(kind, w.id, hist[w.id].level + 1, Len(r.s.buffer)))
    /\ unwinding' = unwinding
    /\ UNCHANGED <<evars, nvars, fvars>>

\* the writer at stack position i ends: the sink after, and the history
Closed(i, s2) ==
    /\ sink' = s2
    /\ stack' = RemoveAt(stack, i)
    /\ hist' = [hist EXCEPT ![stack[i].id] =
                   [@ EXCEPT !.closes = @ + CountByte(Appended(sink, s2), CloseByte(stack[i].kind)),
                             !.closeAt = Len(s2.buffer),
                             !.ended = TRUE]]

\* end() on the writer at stack position i
End(i) ==
    /\ ~unwinding
    /\ CanUse(i)
    /\ Closed(i, end(stack[i], sink))
    /\ unwinding' = unwinding
    /\ UNCHANGED <<evars, nvars, fvars>>

\* the writer at stack position i goes out of scope
ScopeExit(i) ==
    /\ ~unwinding
    /\ CanUse(i)
    /\ Closed(i, drop(stack[i], sink))
    /\ unwinding' = unwinding
    /\ UNCHANGED <<evars, nvars, fvars>>

\* the program panics between two writer calls while writers are alive
Panic ==
    /\ ~unwinding
    /\ stack # <<>>
    /\ unwinding' = TRUE
    /\ UNCHANGED <<sink, stack, hist, evars, nvars, fvars>>

\* the unwind drops the innermost live writer
UnwindDrop ==
    /\ unwinding
    /\ stack # <<>>
    /\ Closed(Len(stack), drop(stack[Len(stack)], sink))
    /\ unwinding' = unwinding
    /\ UNCHANGED <<evars, nvars, fvars>>

Next ==
    \/ \E kind \in Kinds : New(kind)
    \/ \E i \in 1..Len(stack) : \E key \in KeysFor(stack[i]) : \E v \in Values : Value(i, key, v)
    \/ \E i \in 1..Len(stack) : \E key \in KeysFor(stack[i]) : \E kind \in Kinds : Nested(i, key, kind)
    \/ \E i \in 1..Len(stack) : End(i)
    \/ \E i \in 1..Len(stack) : ScopeExit(i)
    \/ Panic
    \/ UnwindDrop

Spec == Init /\ [][Next]_vars

----------------------------------------------------------------------------
(* The same program with the low-level methods: write_key and write_comma  *)
(* may be called as well, and nothing is written after them by the caller. *)
(* Such a call is kept in the history as a member without a value (its     *)
(* val has the type "none").                                               *)

\* write_key(key) / write_comma() on the writer at stack position i
WritePrefix(i, key) ==
    /\ ~unwinding
    /\ CanUse(i)
    /\ TotalMembers(hist) < MaxOps
    /\ LET w == stack[i]
           r == write_prefix(w, sink, key)
       IN  /\ sink' = r.s
           /\ stack' = [stack EXCEPT ![i] = r.w]
           /\ hist' = [hist EXCEPT ![w.id].members =
                          Append(@, Member(Len(sink.buffer), key, [NullValue EXCEPT !.t = "none"],
                                           0, Len(r.s.buffer)))]
    /\ unwinding' = unwinding
    /\ UNCHANGED <<evars, nvars, fvars>>

NextHatch ==
    \/ \E kind \in Kinds : New(kind)
    \/ \E i \in 1..Len(stack) : \E key \in KeysFor(stack[i]) : \E v \in Values : Value(i, key, v)
    \/ \E i \in 1..Len(stack) : \E key \in KeysFor(stack[i]) : \E kind \in Kinds : Nested(i, key, kind)
    \/ \E i \in 1..Len(stack) : \E key \in KeysFor(stack[i]) : WritePrefix(i, key)
    \/ \E i \in 1..Len(stack) : End(i)

SpecHatch == Init /\ [][NextHatch]_vars

----------------------------------------------------------------------------
(* The escaper run: one call of write_part_of_string or write_string on an *)
(* input string and an output buffer that may already hold text.           *)

\* Characters as their UTF-8 bytes: the ASCII characters, and a two-, a
\* three- and a four-byte character.
MultiByteChars == {<<195, 164>>, <<228, 184, 173>>, <<240, 159, 152, 128>>}
AllChars == {<<b>> : b \in 0..127} \cup MultiByteChars
\* The characters of the longer inputs: controls with and without a short
\* escape, the three escaped printable characters, plain ASCII, DEL, 'u',
\* and multi-byte characters.
SampleChars ==
    {<<0>>, <<8>>, <<10>>, <<12>>, <<31>>, <<QUOTE>>, <<BACKSLASH>>, <<SLASH>>,
     <<97>>, <<117>>, <<127>>, <<195, 164>>, <<228, 184, 173>>}

RECURSIVE Flatten(_)
Flatten(chars) == IF chars = <<>> THEN <<>> ELSE Head(chars) \o Flatten(Tail(chars))

EscInputs ==
    {Flatten(cs) : cs \in UNION {[1..n -> SampleChars] : n \in 0..MaxEscLen}}
        \cup AllChars

\* the output buffer before the call: empty, or holding "x
EscPrefixes == {<<>>, <<120, QUOTE>>}

InitEscape ==
    /\ einput \in EscInputs
    /\ eprefix \in EscPrefixes
    /\ eoutput = eprefix
    /\ epc = "ready"
    /\ scan = [num_bytes_written |-> 0, index |-> 0]
    /\ WIdle
    /\ NIdle
    /\ FIdle

WritePartOfString ==
    /\ epc = "ready"
    /\ eoutput' = write_part_of_string(eoutput, einput)
    /\ epc' = "part"
    /\ UNCHANGED <<einput, eprefix, scan, wvars, nvars, fvars>>

WriteString ==
    /\ epc = "ready"
    /\ eoutput' = write_string(eoutput, einput)
    /\ epc' = "quoted"
    /\ UNCHANGED <<einput, eprefix, scan, wvars, nvars, fvars>>

NextEscape == WritePartOfString \/ WriteString

SpecEscape == InitEscape /\ [][NextEscape]_vars

----------------------------------------------------------------------------
(* The scan: write_part_of_string_impl statement by statement, one turn of *)
(* its while loop at a time. The statements run one after the other, so a  *)
(* turn that can be taken is taken (weak fairness).                        *)

\* Variant of the loop body: after an escape num_bytes_written is set to
\* index (the escaped byte stays in the pending run).
LoopTurn_keep_byte ==
    /\ epc = "ready"
    /\ scan.index < Len(einput)
    /\ LET cur_byte == einput[scan.index + 1]
           replacement == REPLACEMENTS[cur_byte]
       IN  IF replacement # 0
           THEN /\ eoutput' = eoutput
                       \o (IF scan.num_bytes_written < scan.index
                           THEN SubSeq(einput, scan.num_bytes_written + 1, scan.index) ELSE <<>>)
                       \o (IF replacement = 117 THEN HexEscape(cur_byte) ELSE ShortEscape(replacement))
                /\ scan' = [num_bytes_written |-> scan.index, index |-> scan.index + 1]
           ELSE /\ eoutput' = eoutput
                /\ scan' = [scan EXCEPT !.index = @ + 1]
    /\ UNCHANGED <<einput, eprefix, epc, wvars, nvars, fvars>>

\* one turn of while index < bytes.len(): the pending run and the escape
\* are pushed if the byte has a replacement; index += 1
LoopTurn ==
    /\ epc = "ready"
    /\ scan.index < Len(einput)
    /\ LET cur_byte == einput[scan.index + 1]
           replacement == REPLACEMENTS[cur_byte]
       IN  IF replacement # 0
           THEN /\ eoutput' = eoutput
                       \o (IF scan.num_bytes_written < scan.index
                           THEN SubSeq(einput, scan.num_bytes_written + 1, scan.index) ELSE <<>>)
                       \o (IF replacement = 117 THEN HexEscape(cur_byte) ELSE ShortEscape(replacement))
                /\ scan' = [num_bytes_written |-> scan.index + 1, index |-> scan.index + 1]
           ELSE /\ eoutput' = eoutput
                /\ scan' = [scan EXCEPT !.index = @ + 1]
    /\ UNCHANGED <<einput, eprefix, epc, wvars, nvars, fvars>>

\* after the loop: the last run is pushed if num_bytes_written < bytes.len()
LastRun ==
    /\ epc = "ready"
    /\ ~(scan.index < Len(einput))
    /\ eoutput' = eoutput
            \o (IF scan.num_bytes_written < Len(einput)
                THEN SubSeq(einput, scan.num_bytes_written + 1, Len(einput)) ELSE <<>>)
    /\ epc' = "part"
    /\ UNCHANGED <<einput, eprefix, scan, wvars, nvars, fvars>>

SpecScan == InitEscape /\ [][LoopTurn \/ LastRun]_vars /\ WF_vars(LoopTurn \/ LastRun)

----------------------------------------------------------------------------
(* The number run: one float written as a value (JSONWriterValue for f64   *)
(* and for f32) to a sink that may already hold text.                      *)

F64Of(r) == [sign |-> r.sign, exp |-> r.exp, hi |-> r.hi, lo |-> r.lo]
F32Of(r) == [sign |-> r.sign, exp |-> r.exp, man |-> r.man]

\* doubles: those of the table, the infinities, and NaNs with several payloads
F64Inputs ==
    {[ty |-> "f64", sign |-> r.sign, exp |-> r.exp, hi |-> r.hi, lo |-> r.lo, man |-> 0] :
        r \in RyuTable}
    \cup {[ty |-> "f64", sign |-> sg, exp |-> 2047, hi |-> h, lo |-> l, man |-> 0] :
            sg \in {0, 1}, h \in {0, 33554432, 67108863}, l \in {0, 1}}

\* floats: 0, -0, 2, -2, 0.5, 0.1, the least subnormal, the greatest finite
\* float, the infinities and NaNs with several payloads
F32Inputs ==
    {[ty |-> "f32", sign |-> sg, exp |-> e, hi |-> 0, lo |-> 0, man |-> 0] :
        sg \in {0, 1}, e \in {0, 128, 255}}
    \cup {[ty |-> "f32", sign |-> 0, exp |-> 126, hi |-> 0, lo |-> 0, man |-> 0],
          [ty |-> "f32", sign |-> 0, exp |-> 123, hi |-> 0, lo |-> 0, man |-> 5033165],
          [ty |-> "f32", sign |-> 0, exp |-> 0, hi |-> 0, lo |-> 0, man |-> 1],
          [ty |-> "f32", sign |-> 0, exp |-> 254, hi |-> 0, lo |-> 0, man |-> 8388607]}
    \cup {[ty |-> "f32", sign |-> sg, exp |-> 255, hi |-> 0, lo |-> 0, man |-> m] :
            sg \in {0, 1}, m \in {1, 4194304, 8388607}}

\* the sink before the call: a fresh sink, or one holding [
NumPrefixes == Sinks \cup {push(s, LBRACKET) : s \in Sinks}

InitNumber ==
    /\ nvalue \in F64Inputs \cup F32Inputs
    /\ nprefix \in NumPrefixes
    /\ noutput = nprefix
    /\ npc = "ready"
    /\ WIdle
    /\ EIdle
    /\ FIdle

\* JSONWriterValue for f64
WriteF64 ==
    /\ npc = "ready"
    /\ nvalue.ty = "f64"
    /\ noutput' = json_number_f64(noutput, F64Of(nvalue))
    /\ npc' = "done"
    /\ UNCHANGED <<nvalue, nprefix, wvars, evars, fvars>>

\* JSONWriterValue for f32
WriteF32 ==
    /\ npc = "ready"
    /\ nvalue.ty = "f32"
    /\ noutput' = json_number_f64(noutput, f32_as_f64(F32Of(nvalue)))
    /\ npc' = "done"
    /\ UNCHANGED <<nvalue, nprefix, wvars, evars, fvars>>

NextNumber == WriteF64 \/ WriteF32

SpecNumber == InitNumber /\ [][NextNumber]_vars

----------------------------------------------------------------------------
(* The integer run: one integer written as a value (JSONWriterValue for    *)
(* u8 .. i128) to a sink that may already hold text.                       *)

\* bit patterns of a type: every one for the 8-bit types; for the wider
\* types 0, 1, the all-ones pattern (-1 or the unsigned maximum), the
\* pattern with only the top bit (the signed minimum) and its complement
\* (the signed maximum), values around the digit-group boundaries and a
\* mixed pattern
IntPatterns(ty) ==
    IF IntWidth(ty) = 8 THEN {<<b>> : b \in 0..255}
    ELSE LET n == IntLimbs(ty)
             low(k) == [i \in 1..n |-> IF i = 1 THEN k ELSE 0]
         IN  {low(k) : k \in {0, 1, 9, 10, 99, 100, 9999, 10000, 65535}}
             \cup {[i \in 1..n |-> 65535],
                   [i \in 1..n |-> IF i = n THEN 32768 ELSE 0],
                   [i \in 1..n |-> IF i = n THEN 32767 ELSE 65535],
                   [i \in 1..n |-> IF i = n THEN 65535 ELSE 0],
                   [i \in 1..n |-> (i * 12345 + 6789) % 65536]}
             \cup (IF n >= 2 THEN {[i \in 1..n |-> IF i = 1 THEN 57600 ELSE IF i = 2 THEN 1525 ELSE 0]}
                   ELSE {})

IntInputs == UNION {{[ty |-> ty, bits |-> b] : b \in IntPatterns(ty)} : ty \in IntTypes}

InitInteger ==
    /\ nvalue \in IntInputs
    /\ nprefix \in NumPrefixes
    /\ noutput = nprefix
    /\ npc = "ready"
    /\ WIdle
    /\ EIdle
    /\ FIdle

\* JSONWriterValue for the unsigned integers
WriteUnsigned ==
    /\ npc = "ready"
    /\ ~IntSigned(nvalue.ty)
    /\ noutput' = write_json_integer(nvalue, noutput)
    /\ npc' = "done"
    /\ UNCHANGED <<nvalue, nprefix, wvars, evars, fvars>>

\* JSONWriterValue for the signed integers
WriteSigned ==
    /\ npc = "ready"
    /\ IntSigned(nvalue.ty)
    /\ noutput' = write_json_integer(nvalue, noutput)
    /\ npc' = "done"
    /\ UNCHANGED <<nvalue, nprefix, wvars, evars, fvars>>

NextInteger == WriteUnsigned \/ WriteSigned

SpecInteger == InitInteger /\ [][NextInteger]_vars

----------------------------------------------------------------------------
(* The flush run: a program that writes one document to a String and may   *)
(* call output_buffered_data on the writer it can use, between any two     *)
(* writer operations. shadow is the same program with the flushes left     *)
(* out: every writer operation is applied to it as well.                   *)

\* outcomes of the external write: success, an error before any byte was
\* passed on, an error after half of the buffer was passed on
Outcomes ==
    {[ok |-> TRUE, err |-> "none", part |-> 2],
     [ok |-> FALSE, err |-> "WriteZero", part |-> 0],
     [ok |-> FALSE, err |-> "BrokenPipe", part |-> 1]}

\* the key and the value the flush run writes
FlushKeysFor(w) == IF w.kind = "object" THEN {<<97>>} ELSE {NoKey}
FlushValues == {I32Value(42)}

InitFlush ==
    /\ WIdle
    /\ EIdle
    /\ NIdle
    /\ ext = <<>>
    /\ flush = NoFlush
    /\ shadow = NoShadow

\* JSONObjectWriter::new / JSONArrayWriter::new on the String
FNew(kind) ==
    /\ stack = <<>>
    /\ shadow.made = 0
    /\ LET r == IF kind = "object" THEN JSONObjectWriter_new(sink, 1)
                ELSE JSONArrayWriter_new(sink, 1)
           rs == IF kind = "object" THEN JSONObjectWriter_new(shadow.sink, 1)
                 ELSE JSONArrayWriter_new(shadow.sink, 1)
       IN  /\ sink' = r.s
           /\ stack' = <<r.w>>
           /\ shadow' = [shadow EXCEPT !.sink = rs.s, !.stack = <<rs.w>>, !.made = 1]
    /\ flush' = NoFlush
    /\ UNCHANGED <<unwinding, hist, ext, evars, nvars>>

\* value(key, v) on the writer at stack position i
FValue(i, key, v) ==
    /\ CanUse(i)
    /\ shadow.ops < MaxOps
    /\ LET r == value(stack[i], sink, key, v)
           rs == value(shadow.stack[i], shadow.sink, key, v)
       IN  /\ sink' = r.s
           /\ stack' = [stack EXCEPT ![i] = r.w]
           /\ shadow' = [shadow EXCEPT !.sink = rs.s, !.stack[i] = rs.w, !.ops = @ + 1]
    /\ flush' = NoFlush
    /\ UNCHANGED <<unwinding, hist, ext, evars, nvars>>

\* object(key) / array(key) on the writer at stack position i
FNested(i, key, kind) ==
    /\ CanUse(i)
    /\ shadow.ops < MaxOps
    /\ shadow.made < MaxWriters
    /\ LET id == shadow.made + 1
           r == IF kind = "object" THEN object(stack[i], sink, key, id)
                ELSE array(stack[i], sink, key, id)
           rs == IF kind = "object" THEN object(shadow.stack[i], shadow.sink, key, id)
                 ELSE array(shadow.stack[i], shadow.sink, key, id)
       IN  /\ sink' = r.s
           /\ stack' = Append([stack EXCEPT ![i] = r.w], r.child)
           /\ shadow' = [shadow EXCEPT !.sink = rs.s,
                                       !.stack = Append([@ EXCEPT ![i] = rs.w], rs.child),
                                       !.ops = @ + 1, !.made = id]
    /\ flush' = NoFlush
    /\ UNCHANGED <<unwinding, hist, ext, evars, nvars>>

\* end() on, or the drop of, the writer at stack position i
FEnd(i) ==
    /\ CanUse(i)
    /\ sink' = end(stack[i], sink)
    /\ stack' = RemoveAt(stack, i)
    /\ shadow' = [shadow EXCEPT !.sink = end(shadow.stack[i], shadow.sink),
                                !.stack = RemoveAt(@, i)]
    /\ flush' = NoFlush
    /\ UNCHANGED <<unwinding, hist, ext, evars, nvars>>

\* output_buffered_data on the writer at stack position i, the external
\* write ending with the given outcome
Flush(i, outcome) ==
    /\ CanUse(i)
    /\ shadow.flushes < MaxFlushes
    /\ LET r == output_buffered_data(stack[i], sink, ext, outcome)
       IN  /\ sink' = r.s
           /\ stack' = [stack EXCEPT ![i] = r.w]
           /\ ext' = r.received
           /\ flush' = [called |-> TRUE, ret |-> r.ret,
                        raised |-> (IF outcome.ok THEN "none" ELSE outcome.err),
                        before |-> sink.buffer, after |-> r.s.buffer,
                        extBefore |-> ext, extAfter |-> r.received]
    /\ shadow' = [shadow EXCEPT !.flushes = @ + 1, !.failed = @ \/ ~outcome.ok]
    /\ UNCHANGED <<unwinding, hist, evars, nvars>>

NextFlush ==
    \/ \E kind \in Kinds : FNew(kind)
    \/ \E i \in 1..Len(stack) : \E key \in FlushKeysFor(stack[i]) : \E v \in FlushValues :
            FValue(i, key, v)
    \/ \E i \in 1..Len(stack) : \E key \in FlushKeysFor(stack[i]) : \E kind \in Kinds :
            FNested(i, key, kind)
    \/ \E i \in 1..Len(stack) : FEnd(i)
    \/ \E i \in 1..Len(stack) : \E outcome \in Outcomes : Flush(i, outcome)

SpecFlush == InitFlush /\ [][NextFlush]_vars

----------------------------------------------------------------------------
(* The pair run: one program writes the same document to a pretty sink     *)
(* (sink) and to a String (shadow), operation by operation.                *)

PairKeys == {<<97>>, <<SPACE, QUOTE, COLON>>}
PairKeysFor(w) == IF w.kind = "object" THEN PairKeys ELSE {NoKey}
PairValues == {I32Value(42), StrValue(<<SPACE, BACKSLASH, NEWLINE, RBRACKET>>)}

InitPair ==
    /\ sink \in {PrettyJSONWriter_new, PrettyJSONWriter_with_indent(<<SPACE, SPACE, SPACE>>)}
    /\ stack = <<>>
    /\ unwinding = FALSE
    /\ hist = <<>>
    /\ EIdle
    /\ NIdle
    /\ FIdle

NextPair ==
    \/ \E kind \in Kinds : FNew(kind)
    \/ \E i \in 1..Len(stack) : \E key \in PairKeysFor(stack[i]) : \E v \in PairValues :
            FValue(i, key, v)
    \/ \E i \in 1..Len(stack) : \E key \in PairKeysFor(stack[i]) : \E kind \in Kinds :
            FNested(i, key, kind)
    \/ \E i \in 1..Len(stack) : FEnd(i)

SpecPair == InitPair /\ [][NextPair]_vars

----------------------------------------------------------------------------
(* The collection run: write_json of a slice, a Vec, a HashMap or a        *)
(* BTreeMap on a fresh sink. nvalue is the collection: [ty, items, rest],  *)
(* items the elements (key, v) in the order the container iterates them,   *)
(* rest what self.iter() has still to yield; the local writer is stack[1]. *)

\* The containers given to write_json: up to MaxOps elements, all i32 or
\* all str (one Item type); a map has distinct keys, a HashMap iterates
\* them in any order, a BTreeMap in ascending order of the keys (Ord of
\* str: bytewise).
Collections ==
    LET keys == {<<97>>, <<97, 98>>, <<QUOTE>>}
        less(s, t) == \E i \in 1..Len(t) :
                          /\ \A j \in 1..(i - 1) : j <= Len(s) /\ s[j] = t[j]
                          /\ (i > Len(s) \/ s[i] < t[i])
        items(ks, vs) == UNION {[1..n -> {[key |-> k, v |-> v] : k \in ks, v \in vs}] : n \in 0..MaxOps}
        lists == items({NoKey}, {I32Value(65), I32Value(66)})
                     \cup items({NoKey}, {StrValue(<<COMMA>>), StrValue(<<RBRACKET, QUOTE>>)})
        maps == {s \in items(keys, {I32Value(65), I32Value(66)})
                           \cup items(keys, {StrValue(<<COMMA>>), StrValue(<<RBRACE, QUOTE>>)}) :
                    \A i, j \in 1..Len(s) : i # j => s[i].key # s[j].key}
        sorted == {s \in maps : \A i \in 1..(Len(s) - 1) : less(s[i].key, s[i + 1].key)}
    IN  {[ty |-> ty, items |-> s, rest |-> <<>>] : ty \in {"slice", "Vec"}, s \in lists}
            \cup {[ty |-> "HashMap", items |-> s, rest |-> <<>>] : s \in maps}
            \cup {[ty |-> "BTreeMap", items |-> s, rest |-> <<>>] : s \in sorted}

\* Variant of iter: the elements come last to first.
iter_reversed(c) == [i \in 1..Len(c.items) |-> c.items[Len(c.items) + 1 - i]]

\* self.iter(): the elements of the slice first to last, the pairs of the
\* map in the order the map holds them
iter(c) == c.items

InitCollection ==
    /\ nvalue \in Collections
    /\ npc = "ready"
    /\ nprefix = NewString
    /\ noutput = NewString
    /\ sink \in Sinks
    /\ stack = <<>>
    /\ unwinding = FALSE
    /\ hist = <<>>
    /\ EIdle
    /\ FIdle

\* JSONWriterValue for &Vec<Item>: self.as_slice().write_json(writer)
VecAsSlice ==
    /\ npc = "ready"
    /\ nvalue.ty = "Vec"
    /\ nvalue' = [nvalue EXCEPT !.ty = "slice"]
    /\ UNCHANGED <<npc, nprefix, noutput, wvars, evars, fvars>>

\* write_json of a slice or a map, first statement: JSONArrayWriter::new /
\* JSONObjectWriter::new, then the iterator of the for loop is made
BeginCollection ==
    /\ npc = "ready"
    /\ nvalue.ty # "Vec"
    /\ LET r == IF nvalue.ty = "slice" THEN JSONArrayWriter_new(sink, 1)
                ELSE JSONObjectWriter_new(sink, 1)
       IN  /\ sink' = r.s
           /\ stack' = <<r.w>>
    /\ nvalue' = [nvalue EXCEPT !.rest = iter(nvalue)]
    /\ npc' = "loop"
    /\ UNCHANGED <<nprefix, noutput, unwinding, hist, evars, fvars>>

\* one turn of the for loop: array.value(item) / obj.value(key.as_ref(), value)
NextItem ==
    /\ npc = "loop"
    /\ nvalue.rest # <<>>
    /\ LET item == Head(nvalue.rest)
           r == value(stack[1], sink, item.key, item.v)
       IN  /\ sink' = r.s
           /\ stack' = <<r.w>>
    /\ nvalue' = [nvalue EXCEPT !.rest = Tail(@)]
    /\ UNCHANGED <<npc, nprefix, noutput, unwinding, hist, evars, fvars>>

\* the iterator is exhausted and write_json returns: the local writer goes
\* out of scope (Drop)
EndCollection ==
    /\ npc = "loop"
    /\ nvalue.rest = <<>>
    /\ sink' = drop(stack[1], sink)
    /\ stack' = <<>>
    /\ npc' = "done"
    /\ UNCHANGED <<nvalue, nprefix, noutput, unwinding, hist, evars, fvars>>

NextCollection == VecAsSlice \/ BeginCollection \/ NextItem \/ EndCollection

SpecCollection == InitCollection /\ [][NextCollection]_vars

----------------------------------------------------------------------------
(* The sink run: a caller uses a sink through the public trait JSONWriter  *)
(* itself, method by method, in any order. stack lists the containers the  *)
(* caller has begun and not ended, shadow.ops counts the calls, unwinding  *)
(* is set when a call did not return. depth is a usize: it is kept as the  *)
(* representative nearest to 0 of its residue modulo 2^64, so that -1      *)
(* stands for usize::MAX; the run is followed up to the first wrap.        *)

\* json_end_object / json_end_array called on the sink s: the sinks and
\* the fates (returned or not) the call can have. self.depth -= 1 at depth
\* 0 is an arithmetic overflow: a build with overflow checks (debug)
\* panics there and leaves the sink as it was; a build without (release)
\* wraps to usize::MAX, and then an empty container gets its bracket,
\* while for a non-empty one write_indent pushes the indent usize::MAX
\* times, which ends when the buffer can no longer grow.
json_end_outcomes(s, kind, empty) ==
    IF s.kind = "Pretty" /\ s.depth = 0
    THEN {[s |-> s, returned |-> FALSE],
          IF empty THEN [s |-> push([s EXCEPT !.depth = -1], CloseByte(kind)), returned |-> TRUE]
          ELSE [s |-> push([s EXCEPT !.depth = -1], NEWLINE), returned |-> FALSE]}
    ELSE {[s |-> IF kind = "object" THEN json_end_object(s, empty) ELSE json_end_array(s, empty),
           returned |-> TRUE]}

InitSink ==
    /\ sink \in Sinks
    /\ stack = <<>>
    /\ unwinding = FALSE
    /\ hist = <<>>
    /\ EIdle
    /\ NIdle
    /\ FIdle

\* writer.json_begin_object() / writer.json_begin_array()
CallBegin(kind) ==
    /\ ~unwinding
    /\ sink.depth >= 0
    /\ shadow.ops < MaxOps
    /\ Len(stack) < MaxWriters
    /\ sink' = (IF kind = "object" THEN json_begin_object(sink) ELSE json_begin_array(sink))
    /\ stack' = Append(stack, [kind |-> kind, empty |-> TRUE, id |-> 0])
    /\ shadow' = [shadow EXCEPT !.ops = @ + 1]
    /\ UNCHANGED <<unwinding, hist, ext, flush, evars, nvars>>

\* writer.json_end_object(empty) / writer.json_end_array(empty)
CallEnd(kind, empty) ==
    /\ ~unwinding
    /\ sink.depth >= 0
    /\ shadow.ops < MaxOps
    /\ \E o \in json_end_outcomes(sink, kind, empty) :
            /\ sink' = o.s
            /\ unwinding' = ~o.returned
            /\ stack' = IF o.returned /\ stack # <<>> THEN SubSeq(stack, 1, Len(stack) - 1) ELSE stack
    /\ shadow' = [shadow EXCEPT !.ops = @ + 1]
    /\ UNCHANGED <<hist, ext, flush, evars, nvars>>

\* writer.json_begin_array_value(first) / writer.json_object_key(key, first)
CallSeparator(key, first) ==
    /\ ~unwinding
    /\ sink.depth >= 0
    /\ shadow.ops < MaxOps
    /\ sink' = (IF key = NoKey THEN json_begin_array_value(sink, first)
                ELSE json_object_key(sink, key, first))
    /\ stack' = [i \in 1..Len(stack) |-> IF i = Len(stack) THEN [stack[i] EXCEPT !.empty = FALSE]
                                         ELSE stack[i]]
    /\ shadow' = [shadow EXCEPT !.ops = @ + 1]
    /\ UNCHANGED <<unwinding, hist, ext, flush, evars, nvars>>

\* value.write_json(writer): json_null, json_bool, json_number_str,
\* json_number_f64 or json_string, by the type of the value
CallValue(v) ==
    /\ ~unwinding
    /\ sink.depth >= 0
    /\ shadow.ops < MaxOps
    /\ sink' = write_json(v, sink)
    /\ shadow' = [shadow EXCEPT !.ops = @ + 1]
    /\ UNCHANGED <<stack, unwinding, hist, ext, flush, evars, nvars>>

NextSink ==
    \/ \E kind \in Kinds : CallBegin(kind)
    \/ \E kind \in Kinds : \E empty \in BOOLEAN : CallEnd(kind, empty)
    \/ \E key \in {NoKey} \cup Keys : \E first \in BOOLEAN : CallSeparator(key, first)
    \/ \E v \in Values \cup {NullValue} : CallValue(v)

SpecSink == InitSink /\ [][NextSink]_vars

----------------------------------------------------------------------------
(* Properties of the scoped writers, checked under Spec.                   *)

Buf == sink.buffer
Ids == 1..Len(hist)
Live == {stack[i].id : i \in 1..Len(stack)}

\* C1: every writer wrote its opening bracket at construction; a live writer
\* has written no closing bracket; a writer that has ended, by end(), by
\* leaving scope or in an unwind, has written its closing bracket exactly
\* once, and it is the bracket of its kind.
C1_ClosedExactlyOnce ==
    \A id \in Ids :
        LET h == hist[id]
        IN  /\ h.openAt \in 1..Len(Buf)
            /\ Buf[h.openAt] = OpenByte(h.kind)
            /\ h.ended <=> id \notin Live
            /\ ~h.ended => h.closes = 0
            /\ h.ended => /\ h.closes = 1
                          /\ h.closeAt > h.openAt
                          /\ h.closeAt \in 1..Len(Buf)
                          /\ Buf[h.closeAt] = CloseByte(h.kind)

\* C1 witness: an unwind has closed three nested writers, after an earlier
\* state ended none of them.
C1_Witness ==
    /\ unwinding
    /\ stack = <<>>
    /\ Len(hist) = 3
    /\ hist[3].parent = 2
    /\ \A id \in Ids : hist[id].closes = 1

RECURSIVE ScanBrackets(_, _, _, _)
\* The structural brackets of a JSON text from position k on: inStr tells
\* whether k is inside a string literal, open is the kinds of the brackets
\* opened and not yet closed. ok is FALSE when a closing bracket does not
\* match the innermost open one, or a string is left open.
ScanBrackets(text, k, inStr, open) ==
    IF k > Len(text) THEN [ok |-> ~inStr, open |-> open]
    ELSE LET c == text[k]
         IN  IF inStr
             THEN IF c = BACKSLASH THEN ScanBrackets(text, k + 2, TRUE, open)
                  ELSE IF c = QUOTE THEN ScanBrackets(text, k + 1, FALSE, open)
                  ELSE ScanBrackets(text, k + 1, TRUE, open)
             ELSE IF c = QUOTE THEN ScanBrackets(text, k + 1, TRUE, open)
             ELSE IF c = LBRACE THEN ScanBrackets(text, k + 1, FALSE, Append(open, "object"))
             ELSE IF c = LBRACKET THEN ScanBrackets(text, k + 1, FALSE, Append(open, "array"))
             ELSE IF c = RBRACE \/ c = RBRACKET
             THEN IF open # <<>> /\ open[Len(open)] = (IF c = RBRACE THEN "object" ELSE "array")
                  THEN ScanBrackets(text, k + 1, FALSE, SubSeq(open, 1, Len(open) - 1))
                  ELSE [ok |-> FALSE, open |-> open]
             ELSE ScanBrackets(text, k + 1, FALSE, open)

\* C2: the structural brackets of the buffer are well nested, the brackets
\* still open are those of the live writers, outermost first, and none is
\* open once every writer has ended.
C2_WellNested ==
    LET r == ScanBrackets(Buf, 1, FALSE, <<>>)
    IN  /\ r.ok
        /\ r.open = [i \in 1..Len(stack) |-> stack[i].kind]
        /\ stack = <<>> => r.open = <<>>

\* C2 witness: an unwind has closed an object nested in an array (or the
\* reverse) three deep, and the buffer holds a string with a bracket in it.
C2_Witness ==
    /\ unwinding
    /\ stack = <<>>
    /\ Len(hist) = 3
    /\ hist[3].parent = 2
    /\ hist[2].kind # hist[1].kind
    /\ \E id \in Ids : \E j \in 1..Len(hist[id].members) :
          hist[id].members[j].child = 0 /\ hist[id].members[j].val.t = "str"

RECURSIVE IsAncestorOrSelf(_, _)
\* writer a is writer c or one of the writers c is nested in
IsAncestorOrSelf(a, c) ==
    IF c = 0 THEN FALSE ELSE IF a = c THEN TRUE ELSE IsAncestorOrSelf(a, hist[c].parent)

\* buffer position p lies outside the text of writer c
Outside(p, c) == p < hist[c].openAt \/ (hist[c].ended /\ p >= hist[c].closeAt)

\* C3: the text of a nested writer is contiguous. While a writer c is alive
\* nothing but c and the writers nested in it writes: every member and
\* every closing bracket of another writer starts before c's opening bracket
\* or after c's closing bracket, and a parent closes after its children.
C3_ExclusiveBorrow ==
    \A c \in Ids : \A a \in Ids :
        ~IsAncestorOrSelf(c, a) =>
            /\ \A j \in 1..Len(hist[a].members) : Outside(hist[a].members[j].start, c)
            /\ IF IsAncestorOrSelf(a, c)
               THEN hist[a].ended => hist[c].ended /\ hist[a].closeAt > hist[c].closeAt
               ELSE /\ Outside(hist[a].openAt, c)
                    /\ hist[a].ended => Outside(hist[a].closeAt, c)

\* C3 witness: a parent wrote a member after a nested writer, which had
\* members of its own, was closed.
C3_Witness ==
    \E c \in Ids :
        /\ hist[c].parent # 0
        /\ hist[c].ended
        /\ hist[c].members # <<>>
        /\ \E j \in 1..Len(hist[hist[c].parent].members) :
              hist[hist[c].parent].members[j].start >= hist[c].closeAt

\* white space the pretty sink inserts
WhiteSpace == {NEWLINE, SPACE, TAB}

\* where the member before member j of writer id ended (its opening
\* bracket for the first member)
PrevEnd(id, j) ==
    IF j = 1 THEN hist[id].openAt
    ELSE LET pm == hist[id].members[j - 1]
         IN  IF pm.child = 0 THEN pm.stop ELSE hist[pm.child].closeAt

\* the text expected between two members: nothing or one comma (compact),
\* a newline or a comma and a newline, then the indent (pretty)
SeparatorText(id, j) ==
    IF sink.kind = "String"
    THEN IF j = 1 THEN <<>> ELSE <<COMMA>>
    ELSE (IF j = 1 THEN <<NEWLINE>> ELSE <<COMMA, NEWLINE>>) \o Repeat(sink.indent, hist[id].level)

RECURSIVE LastNonWhite(_, _)
\* the last position at or before p that holds no white space (0 if none)
LastNonWhite(text, p) ==
    IF p <= 0 THEN 0
    ELSE IF text[p] \in WhiteSpace THEN LastNonWhite(text, p - 1) ELSE p

\* C4: member j of a writer starts where the member before it ended, with
\* exactly the separator text: nothing before the first member and one comma
\* before any other (compact), a newline and the indent, after a comma for
\* any member but the first (pretty); the member itself (a key's quote, a
\* value, a nested bracket) follows at once. The closing bracket of a writer
\* is never preceded by a comma.
C4_SeparatorPlacement ==
    \A id \in Ids :
        LET h == hist[id]
        IN  /\ \A j \in 1..Len(h.members) :
                  LET m == h.members[j]
                      sep == SeparatorText(id, j)
                      first == m.start + Len(sep) + 1
                  IN  /\ m.start = PrevEnd(id, j)
                      /\ first <= Len(Buf)
                      /\ SubSeq(Buf, m.start + 1, m.start + Len(sep)) = sep
                      /\ Buf[first] \notin WhiteSpace \cup {COMMA}
                      /\ h.kind = "object" => Buf[first] = QUOTE
                      /\ m.child # 0 => Buf[hist[m.child].openAt] \in {LBRACE, LBRACKET}
            /\ h.ended =>
                  LET q == LastNonWhite(Buf, h.closeAt - 1)
                  IN  /\ q >= h.openAt
                      /\ Buf[q] # COMMA
                      /\ sink.kind = "String" => q = h.closeAt - 1

\* C4 witness: a pretty-printed writer has ended with three members, one of
\* them nested.
C4_Witness ==
    /\ hist # <<>>
    /\ hist[1].ended
    /\ Len(hist[1].members) = 3
    /\ \E j \in 1..3 : hist[1].members[j].child # 0
    /\ sink.kind = "Pretty"

\* C5: a writer that ended without any member operation left exactly its
\* opening bracket and, next to it, its closing bracket.
C5_EmptyScope ==
    \A id \in Ids :
        LET h == hist[id]
        IN  (h.ended /\ h.members = <<>>) =>
                SubSeq(Buf, h.openAt, h.closeAt) = <<OpenByte(h.kind), CloseByte(h.kind)>>

\* C5 witness: in pretty mode, an object three deep has been closed with
\* no member.
C5_Witness ==
    /\ sink.kind = "Pretty"
    /\ \E id \in Ids :
          hist[id].ended /\ hist[id].members = <<>> /\ hist[id].level = 3 /\ hist[id].kind = "object"

\* the escape of one byte, as the escape table of the interface states it
UpperHexDigit(d) == IF d < 10 THEN 48 + d ELSE 55 + d
EscapeImage(b) ==
    CASE b = 8 -> <<BACKSLASH, 98>>
      [] b = 9 -> <<BACKSLASH, 116>>
      [] b = 10 -> <<BACKSLASH, 110>>
      [] b = 12 -> <<BACKSLASH, 102>>
      [] b = 13 -> <<BACKSLASH, 114>>
      [] b = QUOTE -> <<BACKSLASH, QUOTE>>
      [] b = BACKSLASH -> <<BACKSLASH, BACKSLASH>>
      [] b = SLASH -> <<BACKSLASH, SLASH>>
      [] b < 32 /\ b \notin {8, 9, 10, 12, 13} ->
            <<BACKSLASH, 117, 48, 48, UpperHexDigit(b \div 16), UpperHexDigit(b % 16)>>
      [] OTHER -> <<b>>

RECURSIVE EscapeImages(_)
\* the images of the bytes of a text, in order
EscapeImages(text) ==
    IF text = <<>> THEN <<>> ELSE EscapeImage(Head(text)) \o EscapeImages(Tail(text))

QuotedText(text) == <<QUOTE>> \o EscapeImages(text) \o <<QUOTE>>

\* the JSON text of a scalar value
ValueText(v) ==
    CASE v.t = "null" -> NullText
      [] v.t = "bool" -> IF v.b THEN TrueText ELSE FalseText
      [] v.t = "i32" -> itoa_format(v.n)
      [] v.t = "str" -> QuotedText(v.s)

RECURSIVE ExpectedWriter(_), ExpectedMembers(_, _)
\* the document of an ended writer as its calls state it: the members in
\* call order, each with its own key, nested writers in place
ExpectedMembers(id, j) ==
    IF j > Len(hist[id].members) THEN <<>>
    ELSE LET m == hist[id].members[j]
         IN  SeparatorText(id, j)
             \o (IF hist[id].kind = "object"
                 THEN QuotedText(m.key) \o (IF sink.kind = "String" THEN <<COLON>> ELSE <<COLON, SPACE>>)
                 ELSE <<>>)
             \o (IF m.child = 0 THEN ValueText(m.val) ELSE ExpectedWriter(m.child))
             \o ExpectedMembers(id, j + 1)
ExpectedWriter(id) ==
    <<OpenByte(hist[id].kind)>>
    \o ExpectedMembers(id, 1)
    \o (IF sink.kind = "Pretty" /\ hist[id].members # <<>>
        THEN <<NEWLINE>> \o Repeat(sink.indent, hist[id].level - 1)
        ELSE <<>>)
    \o <<CloseByte(hist[id].kind)>>

\* C6: the text of an ended object writer holds one key/value pair per
\* call, in call order, each under the key of its call, a repeated key
\* included: nothing is dropped, merged or reordered.
C6_CallOrder ==
    \A id \in Ids :
        (hist[id].ended /\ hist[id].kind = "object") =>
            SubSeq(Buf, hist[id].openAt, hist[id].closeAt) = ExpectedWriter(id)

\* C6 witness: an object writer has ended after two value calls with the
\* same key and different values.
C6_Witness ==
    \E id \in Ids :
        /\ hist[id].ended
        /\ hist[id].kind = "object"
        /\ Len(hist[id].members) >= 2
        /\ hist[id].members[1].child = 0
        /\ hist[id].members[2].child = 0
        /\ hist[id].members[1].key = hist[id].members[2].key
        /\ hist[id].members[1].val # hist[id].members[2].val

----------------------------------------------------------------------------
(* Properties of the escaper, checked under SpecEscape.                    *)

\* what the call appended to the output buffer
EscAppended == SubSeq(eoutput, Len(eprefix) + 1, Len(eoutput))

\* C7: the escaped output is the concatenation, in input order, of the
\* images of the input bytes under the escape table (EscapeImage);
\* write_string puts the same text between two quotes.
C7_EscapeTable ==
    /\ epc = "part" => eoutput = eprefix \o EscapeImages(einput)
    /\ epc = "quoted" => eoutput = eprefix \o <<QUOTE>> \o EscapeImages(einput) \o <<QUOTE>>

\* C7 witness: an input with a control character that has no short escape, a
\* solidus and a multi-byte character has been escaped.
C7_Witness ==
    /\ epc = "part"
    /\ einput = <<31, SLASH, 195, 164>>
    /\ EscAppended = <<BACKSLASH, 117, 48, 48, 49, 70, BACKSLASH, SLASH, 195, 164>>

\* the value of a hex digit, -1 for another byte
HexValue(d) ==
    IF d >= 48 /\ d <= 57 THEN d - 48
    ELSE IF d >= 65 /\ d <= 70 THEN d - 55
    ELSE IF d >= 97 /\ d <= 102 THEN d - 87
    ELSE 0 - 1

\* the UTF-8 bytes of a code point below 0x10000
Utf8(cp) ==
    IF cp < 128 THEN <<cp>>
    ELSE IF cp < 2048 THEN <<192 + (cp \div 64), 128 + (cp % 64)>>
    ELSE <<224 + (cp \div 4096), 128 + ((cp \div 64) % 64), 128 + (cp % 64)>>

\* what a JSON parser must refuse
Invalid == <<0 - 1>>

RECURSIVE Unescape(_, _)
\* The content of a JSON string literal read from position k on, as a JSON
\* parser reads it (RFC 8259, section 7): an escape gives its character, an
\* unescaped quote or control character is an error, any other byte stands
\* for itself. An error gives a text that starts with Invalid.
Unescape(text, k) ==
    IF k > Len(text) THEN <<>>
    ELSE LET c == text[k]
         IN  IF c = BACKSLASH
             THEN IF k + 1 > Len(text) THEN Invalid
                  ELSE LET e == text[k + 1]
                       IN  IF e = QUOTE THEN <<QUOTE>> \o Unescape(text, k + 2)
                           ELSE IF e = BACKSLASH THEN <<BACKSLASH>> \o Unescape(text, k + 2)
                           ELSE IF e = SLASH THEN <<SLASH>> \o Unescape(text, k + 2)
                           ELSE IF e = 98 THEN <<8>> \o Unescape(text, k + 2)
                           ELSE IF e = 102 THEN <<12>> \o Unescape(text, k + 2)
                           ELSE IF e = 110 THEN <<10>> \o Unescape(text, k + 2)
                           ELSE IF e = 114 THEN <<13>> \o Unescape(text, k + 2)
                           ELSE IF e = 116 THEN <<9>> \o Unescape(text, k + 2)
                           ELSE IF e = 117 /\ k + 5 <= Len(text)
                                   /\ \A d \in 2..5 : HexValue(text[k + d]) >= 0
                           THEN Utf8(4096 * HexValue(text[k + 2]) + 256 * HexValue(text[k + 3])
                                     + 16 * HexValue(text[k + 4]) + HexValue(text[k + 5]))
                                \o Unescape(text, k + 6)
                           ELSE Invalid
             ELSE IF c = QUOTE \/ c < 32 THEN Invalid
             ELSE <<c>> \o Unescape(text, k + 1)

\* C8: reading the escaper's output back as the content of a JSON string
\* gives the input; write_string's output is that content between quotes.
C8_RoundTrip ==
    /\ epc = "part" => Unescape(EscAppended, 1) = einput
    /\ epc = "quoted" =>
          /\ Len(EscAppended) >= 2
          /\ EscAppended[1] = QUOTE
          /\ EscAppended[Len(EscAppended)] = QUOTE
          /\ Unescape(SubSeq(EscAppended, 2, Len(EscAppended) - 1), 1) = einput

\* C8 witness: an input of a backslash, the letter u and a quote, which only
\* a correct escape of the backslash reads back, has been escaped.
C8_Witness ==
    /\ epc = "part"
    /\ einput = <<BACKSLASH, 117, QUOTE>>
    /\ EscAppended = <<BACKSLASH, BACKSLASH, 117, BACKSLASH, QUOTE>>

----------------------------------------------------------------------------
(* Reading a JSON number back (RFC 8259 section 6) with correct rounding   *)
(* to the nearest double (IEEE 754, ties to even). Natural numbers that do *)
(* not fit a machine word are sequences of limbs in base 10000, least      *)
(* significant limb first.                                                 *)

BigOfInt(n) == <<n % 10000, (n \div 10000) % 10000, n \div 100000000>>

RECURSIVE BigMulRange(_, _, _, _, _)
\* limbs lo..hi of a * k + carry and the carry out of limb hi, for
\* 0 <= k <= 200000; the range is halved so that the nesting stays shallow
BigMulRange(a, k, lo, hi, carry) ==
    IF lo > hi THEN [limbs |-> <<>>, carry |-> carry]
    ELSE IF lo = hi
    THEN CHOOSE res \in {[limbs |-> <<p % 10000>>, carry |-> p \div 10000] :
                            p \in {a[lo] * k + carry}} : TRUE
    ELSE CHOOSE res \in UNION {UNION {
                {[limbs |-> l.limbs \o r.limbs, carry |-> r.carry] :
                    r \in {BigMulRange(a, k, mid + 1, hi, l.carry)}} :
                l \in {BigMulRange(a, k, lo, mid, carry)}} :
                mid \in {(lo + hi) \div 2}} : TRUE

\* a * k + n for a sequence of limbs a
BigMulAddLimbs(a, k, n) ==
    CHOOSE res \in {r.limbs \o (IF r.carry = 0 THEN <<>>
                                ELSE IF r.carry < 10000 THEN <<r.carry>>
                                ELSE <<r.carry % 10000, r.carry \div 10000>>) :
                        r \in {BigMulRange(a, k, 1, Len(a), n)}} : TRUE

\* a * k + n
BigMulAdd(a, k, n) == CHOOSE res \in {BigMulAddLimbs(x, k, n) : x \in {a}} : TRUE

BigMulSmall(a, k) == BigMulAdd(a, k, 0)
BigAddSmall(a, n) == BigMulAdd(a, 1, n)

RECURSIVE BigSubSmall(_, _)
\* a - n for a >= n, 0 <= n < 10000
BigSubSmall(a, n) ==
    IF n = 0 THEN a
    ELSE IF a[1] >= n THEN <<a[1] - n>> \o Tail(a)
    ELSE <<a[1] + 10000 - n>> \o BigSubSmall(Tail(a), 1)

RECURSIVE BigMulPow(_, _, _)
\* a * k^n
BigMulPow(a, k, n) ==
    IF n <= 0 THEN a
    ELSE IF n = 1 THEN BigMulSmall(a, k)
    ELSE CHOOSE res \in {BigMulPow(b, k, n - (n \div 2)) :
                            b \in {BigMulPow(a, k, n \div 2)}} : TRUE

BigMulPow2(x, bits) ==
    CHOOSE res \in {BigMulPow(b, 2, bits % 17) : b \in {BigMulPow(x, 131072, bits \div 17)}} : TRUE
BigMulPow10(x, digits) ==
    CHOOSE res \in {BigMulPow(b, 10, digits % 4) : b \in {BigMulPow(x, 10000, digits \div 4)}} : TRUE

\* the number of limbs up to the highest non-zero one
BigTop(a) ==
    LET nz == {i \in 1..Len(a) : a[i] # 0}
    IN  IF nz = {} THEN 0 ELSE CHOOSE i \in nz : \A j \in nz : j <= i

\* compares limbs 1..n of a and b, the highest limb that differs deciding
BigCmpAt(a, b, n) ==
    LET df == {i \in 1..n : a[i] # b[i]}
        top == CHOOSE i \in df : \A j \in df : j <= i
    IN  IF df = {} THEN 0 ELSE IF a[top] < b[top] THEN 0 - 1 ELSE 1

BigCmpLimbs(a, b) ==
    LET la == BigTop(a)
        lb == BigTop(b)
    IN  IF la < lb THEN 0 - 1 ELSE IF la > lb THEN 1 ELSE BigCmpAt(a, b, la)

\* -1, 0 or 1 as a < b, a = b, a > b
BigCmp(a, b) == CHOOSE res \in {BigCmpLimbs(x, y) : x \in {a}, y \in {b}} : TRUE

RECURSIVE BigOfDigits(_)
\* the number a sequence of decimal digit characters denotes
BigOfDigits(ds) ==
    IF ds = <<>> THEN <<>>
    ELSE CHOOSE res \in {BigMulAdd(h, 10, ds[Len(ds)] - 48) :
                            h \in {BigOfDigits(SubSeq(ds, 1, Len(ds) - 1))}} : TRUE

RECURSIVE SmallOfDigits(_)
SmallOfDigits(ds) ==
    IF ds = <<>> THEN 0 ELSE 10 * SmallOfDigits(SubSeq(ds, 1, Len(ds) - 1)) + ds[Len(ds)] - 48

AllDigits(ds) == ds # <<>> /\ \A k \in 1..Len(ds) : ds[k] >= 48 /\ ds[k] <= 57

FirstOf(text, bs) ==
    IF \E k \in 1..Len(text) : text[k] \in bs
    THEN CHOOSE k \in 1..Len(text) : text[k] \in bs /\ \A j \in 1..(k - 1) : text[j] \notin bs
    ELSE Len(text) + 1

\* A JSON number text as [ok, neg, digits, e]: its value is
\* (-1)^neg * digits * 10^e; ok is FALSE when the text is no JSON number.
ParseNumber(text) ==
    LET neg == text # <<>> /\ text[1] = 45
        body == IF neg THEN Tail(text) ELSE text
        epos == FirstOf(body, {101, 69})
        mant == SubSeq(body, 1, epos - 1)
        expo == SubSeq(body, epos + 1, Len(body))
        dpos == FirstOf(mant, {46})
        int == SubSeq(mant, 1, dpos - 1)
        frac == SubSeq(mant, dpos + 1, Len(mant))
        eneg == expo # <<>> /\ expo[1] = 45
        edig == IF expo # <<>> /\ expo[1] \in {45, 43} THEN Tail(expo) ELSE expo
        ok == /\ AllDigits(int)
              /\ (Len(int) > 1 => int[1] # 48)
              /\ (dpos <= Len(mant) => AllDigits(frac))
              /\ (epos <= Len(body) => AllDigits(edig) /\ Len(edig) <= 4)
        ev == IF epos <= Len(body) /\ ok THEN SmallOfDigits(edig) ELSE 0
    IN  [ok |-> ok, neg |-> neg, digits |-> int \o frac,
         e |-> (IF eneg THEN 0 - ev ELSE ev) - Len(frac)]

\* The text is a JSON number and the double nearest to its value is v
\* (ties to the even mantissa), with the sign of the text: v is what a
\* correctly rounding parser returns for it. With m the 53-bit mantissa of
\* v and v = 4m * 2^q, the value must lie between 4m - 2 (4m - 1 just
\* above a power of two) and 4m + 2, in units of 2^q.
ParsesTo(text, v) ==
    LET E == IF v.exp = 0 THEN 1 ELSE v.exp
        top == (IF v.exp = 0 THEN 0 ELSE 67108864) + v.hi
        q == E - 1077
        zero == v.exp = 0 /\ v.hi = 0 /\ v.lo = 0
        below == IF v.hi = 0 /\ v.lo = 0 /\ v.exp > 1 THEN 1 ELSE 2
        even == v.lo % 2 = 0
    IN  \E p \in {ParseNumber(text)} :
            /\ p.ok
            /\ p.neg = (v.sign = 1)
            /\ v.exp # 2047
            /\ \E m4 \in {BigMulSmall(BigAddSmall(BigMulPow2(BigOfInt(top), 26), v.lo), 4)},
                  d \in {BigMulPow2(BigMulPow10(BigOfDigits(p.digits), IF p.e > 0 THEN p.e ELSE 0),
                                    IF q < 0 THEN 0 - q ELSE 0)} :
                  /\ \E hi \in {BigCmp(d, BigMulPow10(BigMulPow2(BigAddSmall(m4, 2),
                                                                 IF q > 0 THEN q ELSE 0),
                                                      IF p.e < 0 THEN 0 - p.e ELSE 0))} :
                        hi < 0 \/ (hi = 0 /\ even)
                  /\ zero \/
                     \E lo \in {BigCmp(d, BigMulPow10(BigMulPow2(BigSubSmall(m4, below),
                                                                 IF q > 0 THEN q ELSE 0),
                                                      IF p.e < 0 THEN 0 - p.e ELSE 0))} :
                        lo > 0 \/ (lo = 0 /\ even)

----------------------------------------------------------------------------
(* Properties of the number formatting, checked under SpecNumber.          *)

\* what the call appended to the sink
NumAppended == Appended(nprefix, noutput)

\* NaN and the infinities, by their bit patterns (IEEE 754)
NonFinite(v) ==
    IF v.ty = "f64" THEN v.exp = 2047 ELSE v.ty = "f32" /\ v.exp = 255

\* C9: writing a NaN or an infinity, as f64 or as f32, appends exactly the
\* null token and changes nothing else of the sink; the call completes.
C9_NonFiniteIsNull ==
    /\ (npc = "done" /\ NonFinite(nvalue)) =>
          /\ NumAppended = NullText
          /\ noutput = [nprefix EXCEPT !.buffer = @ \o NullText]
    /\ (npc = "ready" /\ NonFinite(nvalue)) => ENABLED (WriteF64 \/ WriteF32)

\* C9 witness: a negative f32 NaN with a payload has been written to a sink
\* that held text.
C9_Witness ==
    /\ npc = "done"
    /\ nvalue.ty = "f32"
    /\ nvalue.exp = 255
    /\ nvalue.man = 1
    /\ nvalue.sign = 1
    /\ nprefix.buffer # <<>>
    /\ NumAppended = NullText

Digit(b) == b >= 48 /\ b <= 57

\* the text has the form <digits>.0, with an optional leading '-'
WholeForm(text) ==
    LET from == IF text # <<>> /\ text[1] = 45 THEN 2 ELSE 1
    IN  /\ Len(text) >= from + 2
        /\ text[Len(text)] = 48
        /\ text[Len(text) - 1] = 46
        /\ \A k \in from..(Len(text) - 2) : Digit(text[k])

\* the decimal rendering of the finite value written (of its widening, for
\* an f32)
Rendering(v) == format_finite(IF v.ty = "f64" THEN F64Of(v) ELSE f32_as_f64(F32Of(v)))

\* C10: for a finite value the text written is the decimal rendering
\* without its last two characters when the rendering has the form
\* <digits>.0, and the rendering itself otherwise; 2.0, -2.0 and 0.0 give
\* 2, -2 and 0.
C10_WholeFloats ==
    (npc = "done" /\ ~NonFinite(nvalue)) =>
        LET r == Rendering(nvalue)
        IN  /\ WholeForm(r) => NumAppended = SubSeq(r, 1, Len(r) - 2)
            /\ ~WholeForm(r) => NumAppended = r
            /\ (nvalue.ty = "f64" /\ nvalue.exp = 1024 /\ nvalue.hi = 0 /\ nvalue.lo = 0) =>
                  NumAppended = (IF nvalue.sign = 1 THEN <<45, 50>> ELSE <<50>>)
            /\ (nvalue.ty = "f64" /\ nvalue.exp = 0 /\ nvalue.hi = 0 /\ nvalue.lo = 0
                  /\ nvalue.sign = 0) => NumAppended = <<48>>

\* C10 witness: -2.0 has been written as -2.
C10_Witness ==
    /\ npc = "done"
    /\ nvalue.ty = "f64"
    /\ nvalue.sign = 1
    /\ nvalue.exp = 1024
    /\ nvalue.hi = 0
    /\ nvalue.lo = 0
    /\ NumAppended = <<45, 50>>

\* the finite double written (the widening of the float, for an f32)
Written(v) == IF v.ty = "f64" THEN F64Of(v) ELSE f32_as_f64(F32Of(v))

\* C11: the text written for a finite double (after the ".0" strip), read
\* back as a JSON number with correct rounding, is that double bit for bit:
\* same sign (also for -0.0), same exponent, same mantissa; no other double
\* of the inputs is the reading of that text.
C11_RoundTrip ==
    (npc = "done" /\ ~NonFinite(nvalue)) =>
        /\ ParsesTo(NumAppended, Written(nvalue))
        /\ \A r \in RyuTable :
              F64Of(r) # Written(nvalue) /\ r.exp \in {Written(nvalue).exp, 0} =>
                  ~ParsesTo(NumAppended, F64Of(r))

\* C11 witness: 1000000000000000.0 has been written without its ".0" and
\* the sixteen digits read back as that double.
C11_Witness ==
    /\ npc = "done"
    /\ nvalue.ty = "f64"
    /\ nvalue.exp = 1072
    /\ NumAppended = <<49, 48, 48, 48, 48, 48, 48, 48, 48, 48, 48, 48, 48, 48, 48, 48>>
    /\ ParsesTo(NumAppended, F64Of(nvalue))

----------------------------------------------------------------------------
(* Properties of the integer formatting, checked under SpecInteger.        *)

RECURSIVE BigAddFrom(_, _, _, _)
\* a + b + carry from limb i on
BigAddFrom(a, b, i, carry) ==
    IF i > Len(a) /\ i > Len(b) THEN (IF carry = 0 THEN <<>> ELSE <<carry>>)
    ELSE CHOOSE res \in {<<sum % 10000>> \o BigAddFrom(a, b, i + 1, sum \div 10000) :
                            sum \in {(IF i <= Len(a) THEN a[i] ELSE 0)
                                     + (IF i <= Len(b) THEN b[i] ELSE 0) + carry}} : TRUE

BigAdd(a, b) == CHOOSE res \in {BigAddFrom(x, y, 1, 0) : x \in {a}, y \in {b}} : TRUE

RECURSIVE BigOfWord(_, _)
\* the number an unsigned word denotes: the sum of bits[i] * base^(i-1)
BigOfWord(bits, base) ==
    IF bits = <<>> THEN <<>>
    ELSE CHOOSE res \in {BigMulAdd(up, base, bits[1]) : up \in {BigOfWord(Tail(bits), base)}} : TRUE

\* The text is the decimal numeral of the integer v: a '-' exactly when v
\* is negative, then digits with no leading zero whose value d is the
\* unsigned reading u of the bits (v >= 0) or satisfies d + u = 2^width
\* (v < 0, two's complement).
IsNumeralOf(text, v) ==
    LET neg == IntSigned(v.ty) /\ v.bits[Len(v.bits)] >= LimbBase(v.ty) \div 2
        ds == IF text # <<>> /\ text[1] = 45 THEN Tail(text) ELSE text
    IN  /\ (text # <<>> /\ text[1] = 45) = neg
        /\ AllDigits(ds)
        /\ Len(ds) > 1 => ds[1] # 48
        /\ \E d \in {BigOfDigits(ds)}, u \in {BigOfWord(v.bits, LimbBase(v.ty))} :
              IF neg
              THEN BigCmp(BigAdd(d, u), BigMulPow2(<<1>>, IntWidth(v.ty))) = 0
              ELSE BigCmp(d, u) = 0

\* the limits the tests name, as text
U64Max == <<49, 56, 52, 52, 54, 55, 52, 52, 48, 55, 51, 55, 48, 57, 53, 53, 49, 54, 49, 53>>
U128Max ==
    <<51, 52, 48, 50, 56, 50, 51, 54, 54, 57, 50, 48, 57, 51, 56, 52, 54, 51, 52, 54,
      51, 51, 55, 52, 54, 48, 55, 52, 51, 49, 55, 54, 56, 50, 49, 49, 52, 53, 53>>
I128Min ==
    <<45, 49, 55, 48, 49, 52, 49, 49, 56, 51, 52, 54, 48, 52, 54, 57, 50, 51, 49, 55,
      51, 49, 54, 56, 55, 51, 48, 51, 55, 49, 53, 56, 56, 52, 49, 48, 53, 55, 50, 56>>

AllOnes(v) == \A i \in 1..Len(v.bits) : v.bits[i] = LimbBase(v.ty) - 1
OnlyTopBit(v) ==
    \A i \in 1..Len(v.bits) :
        v.bits[i] = (IF i = Len(v.bits) THEN LimbBase(v.ty) \div 2 ELSE 0)

\* C12: the text written for an integer of any of the ten types is its
\* exact decimal numeral ('-' exactly for a negative value, no leading
\* zero, no sign otherwise), appended to the sink as it is with nothing
\* else changed (the path of json_number_str: no quotes, no ".0", no
\* rounding); the minimum and maximum of the widest types come out digit
\* for digit.
C12_ExactDecimal ==
    npc = "done" =>
        /\ IsNumeralOf(NumAppended, nvalue)
        /\ noutput = [nprefix EXCEPT !.buffer = @ \o NumAppended]
        /\ (nvalue.ty = "u64" /\ AllOnes(nvalue)) => NumAppended = U64Max
        /\ (nvalue.ty = "u128" /\ AllOnes(nvalue)) => NumAppended = U128Max
        /\ (nvalue.ty = "i128" /\ OnlyTopBit(nvalue)) => NumAppended = I128Min
        /\ (nvalue.ty = "i8" /\ OnlyTopBit(nvalue)) => NumAppended = <<45, 49, 50, 56>>
        /\ (IntSigned(nvalue.ty) /\ AllOnes(nvalue)) => NumAppended = <<45, 49>>

\* C12 witness: the minimum of i128 has been written, 39 digits after the
\* sign, to a sink that held text.
C12_Witness ==
    /\ npc = "done"
    /\ nvalue.ty = "i128"
    /\ OnlyTopBit(nvalue)
    /\ nprefix.buffer # <<>>
    /\ Len(NumAppended) = 40
    /\ NumAppended[1] = 45

----------------------------------------------------------------------------
(* Properties of flushing, checked under SpecFlush.                        *)

\* C13: right after a call of output_buffered_data, if the external write
\* succeeded the external writer has received the whole buffer after what
\* it had, the buffer has length 0 and the call returned Ok(n) with n the
\* length of the buffer before the call; if the external write failed the
\* buffer is what it was before the call and the call returned Err with
\* the very error the external writer raised.
C13_FlushResult ==
    flush.called =>
        /\ sink.buffer = flush.after
        /\ flush.raised = "none" =>
              /\ flush.ret.ok
              /\ flush.extAfter = flush.extBefore \o flush.before
              /\ Len(flush.after) = 0
              /\ flush.ret.n = Len(flush.before)
        /\ flush.raised # "none" =>
              /\ ~flush.ret.ok
              /\ flush.after = flush.before
              /\ flush.ret.err = flush.raised

\* C13 witness: a failed flush of a non-empty buffer left it untouched,
\* after an earlier flush of this run had emptied the buffer.
C13_Witness ==
    /\ flush.called
    /\ flush.raised = "BrokenPipe"
    /\ flush.before # <<>>
    /\ sink.buffer = flush.before
    /\ flush.extBefore # <<>>
    /\ shadow.flushes = 2

\* C14: as long as no external write has failed, the bytes the external
\* writer has received followed by the buffer are the buffer of the same
\* program run without any flush, and every live writer has the is_empty
\* flag it has in that run (the member after a flush gets its separator).
C14_FlushTransparent ==
    ~shadow.failed =>
        /\ ext \o sink.buffer = shadow.sink.buffer
        /\ Len(stack) = Len(shadow.stack)
        /\ \A i \in 1..Len(stack) : stack[i].empty = shadow.stack[i].empty

\* C14 witness: a nested array was flushed right after its first element,
\* then took a second element, which came with its comma into the emptied
\* buffer; the root had been flushed before its first member.
C14_Witness ==
    /\ ~shadow.failed
    /\ shadow.flushes = 2
    /\ Len(stack) = 2
    /\ stack[2].kind = "array"
    /\ shadow.ops = 3
    /\ sink.buffer # <<>>
    /\ sink.buffer[1] = COMMA
    /\ Len(ext) > 1
    /\ ext[2] = LBRACKET

----------------------------------------------------------------------------
(* Properties of the pretty sink, checked under Spec.                      *)

\* the number of containers open at buffer position p: opened at or before
\* p and not closed before or at p
OpenAt(p) ==
    Cardinality({c \in Ids : hist[c].openAt <= p /\ (hist[c].ended => hist[c].closeAt > p)})

\* what a member operation wrote after the separator and the indent: the
\* key and ": " (object), then the value or the nested opening bracket
PrettyMemberText(kind, m) ==
    (IF kind = "object" THEN QuotedText(m.key) \o <<COLON, SPACE>> ELSE <<>>)
    \o (IF m.child = 0 THEN ValueText(m.val) ELSE <<OpenByte(hist[m.child].kind)>>)

\* C15: in pretty mode, what every member operation (of a live or ended
\* writer) appended is a newline if it is the writer's first member and a
\* comma and a newline otherwise, then d copies of the indent unit, d the
\* number of containers open at that point (1 for members of the root),
\* then for an object the key, a colon and one space, then the value.
C15_PrettyMembers ==
    sink.kind = "Pretty" =>
        \A id \in Ids : \A j \in 1..Len(hist[id].members) :
            LET m == hist[id].members[j]
                d == OpenAt(m.start)
                lead == IF j = 1 THEN <<NEWLINE>> ELSE <<COMMA, NEWLINE>>
            IN  /\ SubSeq(Buf, m.start + 1, m.stop)
                      = lead \o Repeat(sink.indent, d) \o PrettyMemberText(hist[id].kind, m)
                /\ hist[id].parent = 0 => d = 1
                /\ d = hist[id].level

\* C15 witness: with the three-space indent, an array nested in an array
\* nested in the root object holds an element, written after a newline and
\* nine spaces.
C15_Witness ==
    /\ sink.kind = "Pretty"
    /\ sink.indent = <<SPACE, SPACE, SPACE>>
    /\ Len(hist) = 3
    /\ hist[1].kind = "object"
    /\ hist[3].parent = 2
    /\ Len(hist[3].members) = 1
    /\ LET m == hist[3].members[1]
       IN  SubSeq(Buf, m.start + 1, m.start + 10) = <<NEWLINE>> \o Repeat(<<SPACE>>, 9)

----------------------------------------------------------------------------
(* Pretty against compact, checked under SpecPair.                         *)

\* for each position of a JSON text, whether it lies in a string literal
\* (the quotes included). A quote opens or closes a literal unless an odd
\* number of backslashes stands right before it; a position is in a
\* literal if it holds such a quote or an odd number of them precede it.
LiteralMask(text) ==
    LET slashes(p) == CHOOSE k \in 0..(p - 1) :
                          /\ \A r \in (p - k)..(p - 1) : text[r] = BACKSLASH
                          /\ (k = p - 1 \/ text[p - k - 1] # BACKSLASH)
    IN  CHOOSE res \in {[p \in 1..Len(text) |->
                            p \in quotes \/ Cardinality({r \in quotes : r < p}) % 2 = 1] :
                        quotes \in {{p \in 1..Len(text) : text[p] = QUOTE /\ slashes(p) % 2 = 0}}} :
            TRUE

\* the text without the spaces and newlines that lie outside string literals
StripWhite(text, mask) ==
    LET keep(p) == mask[p] \/ text[p] \notin {SPACE, NEWLINE}
    IN  CHOOSE res \in {[i \in 1..Len(kept) |-> text[kept[i]]] :
                            kept \in {SelectSeq([p \in 1..Len(text) |-> p], keep)}} : TRUE

\* Every run of white space outside string literals is one space right
\* after a colon, or is a newline followed by a whole number of indent
\* units that stands before a member (after an opening bracket or a comma)
\* or before a closing bracket.
WhiteOnlyAsLayout(text, mask, indent) ==
    LET ws(p) == p >= 1 /\ p <= Len(text) /\ ~mask[p] /\ text[p] \in {SPACE, NEWLINE, TAB}
    IN  \A s \in 1..Len(text) :
            (ws(s) /\ ~ws(s - 1)) =>
                \E e \in s..(Len(text) - 1) :
                    /\ \A q \in s..e : ws(q)
                    /\ ~ws(e + 1)
                    /\ s > 1
                    /\ \/ s = e /\ text[s] = SPACE /\ text[s - 1] = COLON
                       \/ /\ text[s] = NEWLINE
                          /\ \A q \in (s + 1)..e : text[q] = SPACE
                          /\ (e - s) % Len(indent) = 0
                          /\ \/ text[s - 1] \in {LBRACE, LBRACKET, COMMA}
                                /\ text[e + 1] \notin {RBRACE, RBRACKET}
                             \/ text[e + 1] \in {RBRACE, RBRACKET}
                                /\ text[s - 1] \notin {LBRACE, LBRACKET, COMMA}

\* C16: the same operations on a pretty sink and on a String give the same
\* document: the pretty text without its white space outside string
\* literals is the compact text byte for byte (same brackets, separators,
\* keys and values in the same order), every live writer has taken the
\* same first-or-separator decision (its is_empty flag) on both sides, and
\* the white space of the pretty text is only layout: a newline and
\* indentation before members and before the closing bracket of a
\* non-empty container, one space after a key's colon.
C16_PrettyIsCompact ==
    \E mask \in {LiteralMask(sink.buffer)}, cmask \in {LiteralMask(shadow.sink.buffer)} :
        /\ StripWhite(sink.buffer, mask) = shadow.sink.buffer
        /\ WhiteOnlyAsLayout(sink.buffer, mask, sink.indent)
        /\ Len(stack) = Len(shadow.stack)
        /\ \A i \in 1..Len(stack) :
              stack[i].empty = shadow.stack[i].empty /\ stack[i].kind = shadow.stack[i].kind
        /\ \A p \in 1..Len(shadow.sink.buffer) :
              shadow.sink.buffer[p] \in {SPACE, NEWLINE} => cmask[p]

\* C16 witness: both sinks hold the finished document of an object with a
\* string value that has a space in it and a non-empty nested array.
C16_Witness ==
    /\ shadow.made = 2
    /\ stack = <<>>
    /\ shadow.ops = 3
    /\ shadow.sink.buffer[1] = LBRACE
    /\ \E p \in 1..Len(shadow.sink.buffer) : shadow.sink.buffer[p] = SPACE
    /\ \E p \in 2..Len(shadow.sink.buffer) :
          shadow.sink.buffer[p] = RBRACKET /\ shadow.sink.buffer[p - 1] = 50
    /\ Len(sink.buffer) > Len(shadow.sink.buffer) + 8

----------------------------------------------------------------------------
(* Collections as values, checked under SpecCollection.                    *)

RECURSIVE MembersText(_, _, _)
\* the text of the first k members of a container as the interface states
\* it for the sink s: members separated by a comma, a map member being the
\* quoted key, a colon and the value; on the pretty sink every member on a
\* line of its own behind one indent and a space after the colon
MembersText(items, k, s) ==
    IF k = 0 THEN <<>>
    ELSE LET it == items[k]
             pretty == s.kind = "Pretty"
         IN  MembersText(items, k - 1, s)
                 \o (IF k = 1 THEN <<>> ELSE <<COMMA>>)
                 \o (IF pretty THEN <<NEWLINE>> \o s.indent ELSE <<>>)
                 \o (IF it.key = NoKey THEN <<>>
                     ELSE QuotedText(it.key) \o <<COLON>> \o (IF pretty THEN <<SPACE>> ELSE <<>>))
                 \o ValueText(it.v)

\* C17: write_json of a slice or a Vec writes an opening square bracket,
\* one array member per element in the order of the sequence and the
\* closing bracket; write_json of a HashMap or a BTreeMap writes an opening
\* brace, one object member per pair in the order the map iterates them
\* and the closing brace. After every turn of the loop the sink holds the
\* bracket and the members so far, the writer is empty exactly if none was
\* written, and the finished text of an empty container is [] or {}.
C17_Collections ==
    npc \in {"loop", "done"} =>
        LET seq == nvalue.ty \in {"slice", "Vec"}
            k == Len(nvalue.items) - Len(nvalue.rest)
            opened == <<IF seq THEN LBRACKET ELSE LBRACE>> \o MembersText(nvalue.items, k, sink)
            closing == (IF sink.kind = "Pretty" /\ k > 0 THEN <<NEWLINE>> ELSE <<>>)
                           \o <<IF seq THEN RBRACKET ELSE RBRACE>>
        IN  /\ npc = "loop" =>
                /\ sink.buffer = opened
                /\ Len(stack) = 1
                /\ stack[1].kind = (IF seq THEN "array" ELSE "object")
                /\ stack[1].empty = (k = 0)
            /\ npc = "done" =>
                /\ k = Len(nvalue.items)
                /\ sink.buffer = opened \o closing
                /\ stack = <<>>
                /\ nvalue.items = <<>> => sink.buffer \in {<<LBRACKET, RBRACKET>>, <<LBRACE, RBRACE>>}

\* C17 witness: a HashMap of three pairs that iterates the key "ab" first
\* and the key "a" last has been written to a pretty sink.
C17_Witness ==
    /\ npc = "done"
    /\ nvalue.ty = "HashMap"
    /\ Len(nvalue.items) = 3
    /\ nvalue.items[1].key = <<97, 98>>
    /\ nvalue.items[3].key = <<97>>
    /\ sink.kind = "Pretty"
    /\ sink.buffer[Len(sink.buffer)] = RBRACE

----------------------------------------------------------------------------
(* Failures and the depth counter, checked under SpecSink.                 *)

\* C18: no operation of the core other than output_buffered_data fails:
\* every call of a sink method returns, in whatever state of the sink it
\* is made.
C18_NoOperationFails == ~unwinding

\* C19: the depth counter of the pretty sink is 0 at first, goes up by one
\* with every begin and down by one with every end, so that in every state
\* its value is the number of containers begun and not ended (a number
\* that is never negative), and 0 when none is open. Stated of the states
\* in which the last call has returned.
C19_DepthCountsOpen ==
    sink.kind = "Pretty" /\ ~unwinding => sink.depth = Len(stack)

----------------------------------------------------------------------------
(* The closing bracket on the pretty sink, checked under Spec.             *)

\* the number of spaces at the start of the line that holds position p
LineIndent(p) ==
    LET starts == {0} \cup {q \in 1..(p - 1) : Buf[q] = NEWLINE}
        from == CHOOSE q \in starts : \A r \in starts : r <= q
        spaces == {k \in 0..(p - from - 1) : \A r \in (from + 1)..(from + k) : Buf[r] = SPACE}
    IN  CHOOSE k \in spaces : \A r \in spaces : r <= k

\* C20: on the pretty sink, what the end of a writer appended after its
\* last member is the closing bracket alone if the writer had no member,
\* and otherwise a newline, the indent unit once per container still open
\* after this one is closed (the depth after the decrement), and the
\* closing bracket. The closing bracket of a non-empty container is
\* indented as the line that holds its opening bracket, one unit less than
\* its members, and the closing bracket of the root has no indent. After
\* the end the depth is the number of writers still open.
C20_PrettyClose ==
    sink.kind = "Pretty" =>
        /\ sink.depth = Len(stack)
        /\ \A id \in Ids : hist[id].ended =>
              LET h == hist[id]
                  n == Len(h.members)
                  from == PrevEnd(id, n + 1)
                  lower == OpenAt(h.closeAt)
                  text == SubSeq(Buf, from + 1, h.closeAt)
              IN  /\ lower = h.level - 1
                  /\ n = 0 => text = <<CloseByte(h.kind)>>
                  /\ n > 0 =>
                      /\ text = <<NEWLINE>> \o Repeat(sink.indent, lower) \o <<CloseByte(h.kind)>>
                      /\ LineIndent(h.closeAt) = LineIndent(h.openAt)
                      /\ \A j \in 1..n :
                            LineIndent(h.members[j].stop) = LineIndent(h.closeAt) + Len(sink.indent)
                      /\ h.parent = 0 => text = <<NEWLINE, CloseByte(h.kind)>>

\* C20 witness: with the three-space indent, an array nested in the root
\* object has ended after one element, its bracket behind a newline and
\* three spaces, and the root has ended with a newline and its brace.
C20_Witness ==
    /\ sink.kind = "Pretty"
    /\ sink.indent = <<SPACE, SPACE, SPACE>>
    /\ Len(hist) = 2
    /\ hist[1].kind = "object" /\ hist[1].ended
    /\ hist[2].kind = "array" /\ hist[2].ended
    /\ Len(hist[2].members) = 1
    /\ SubSeq(Buf, hist[2].closeAt - 4, hist[2].closeAt) = <<NEWLINE, SPACE, SPACE, SPACE, RBRACKET>>
    /\ SubSeq(Buf, Len(Buf) - 1, Len(Buf)) = <<NEWLINE, RBRACE>>

----------------------------------------------------------------------------
(* The scan of the escaper, checked under SpecScan.                        *)

\* position p of the text (p bytes before it) does not fall inside a
\* multi-byte character: the byte after it is no continuation byte
CharBoundary(text, p) == p = 0 \/ p = Len(text) \/ text[p + 1] \notin 128..191

\* the state of the scan is sound: the locals are ordered, the bytes
\* before num_bytes_written have been emitted once each and in order (as
\* themselves or as their escapes), the bytes of the pending run need no
\* escape, and the run starts at a character boundary behind a byte below
\* 0x80 or at the start of the input
ScanSound ==
    epc \in {"ready", "part"} =>
        LET n == scan.num_bytes_written
            i == scan.index
        IN  /\ 0 <= n /\ n <= i /\ i <= Len(einput)
            /\ n > 0 => einput[n] < 128
            /\ CharBoundary(einput, n)
            /\ \A k \in (n + 1)..i : EscapeImage(einput[k]) = <<einput[k]>>
            /\ epc = "ready" => eoutput = eprefix \o EscapeImages(SubSeq(einput, 1, n))
            /\ epc = "part" => /\ i = Len(einput)
                               /\ eoutput = eprefix \o EscapeImages(einput)

\* a step of the scan moves forward: index never goes back and grows by
\* one in every turn of the loop, the output only grows, and a run is
\* copied only up to a byte below 0x80 or up to the end of the input
ScanForward ==
    /\ scan'.index >= scan.index
    /\ scan'.num_bytes_written >= scan.num_bytes_written
    /\ epc' = "ready" => scan'.index = scan.index + 1
    /\ Len(eoutput') >= Len(eoutput)
    /\ SubSeq(eoutput', 1, Len(eoutput)) = eoutput
    /\ eoutput' # eoutput =>
          \/ epc' = "part"
          \/ einput[scan.index + 1] < 128

\* C21: the escaper scans its input once from front to back: at every
\* step num_bytes_written <= index <= length, every byte of the input is
\* emitted exactly once and in order, as part of a copied run or as its
\* escape, the runs are cut only at bytes below 0x80 or at the ends of the
\* input, and the scan ends for every input.
C21_ForwardScan == [](ScanSound) /\ [][ScanForward]_vars /\ <>(epc = "part")

\* C21 witness: the scan of a quote, a two-byte character and a newline
\* has ended; the character was copied whole between the two escapes.
C21_Witness ==
    /\ epc = "part"
    /\ einput = <<QUOTE, 195, 164, NEWLINE>>
    /\ scan = [num_bytes_written |-> 4, index |-> 4]
    /\ eoutput = eprefix \o <<BACKSLASH, QUOTE, 195, 164, BACKSLASH, 110>>

----------------------------------------------------------------------------
(* The punctuation before a member and the bare key, checked under         *)
(* SpecHatch.                                                              *)

\* the key and the delimiter as the sink writes them after the separator
KeyText(key) == QuotedText(key) \o (IF sink.kind = "Pretty" THEN <<COLON, SPACE>> ELSE <<COLON>>)

\* C22: whatever wrote member j of an object writer (value, object, array
\* or write_key), the text of the member starts with the separator (absent
\* before the first member), then the key in quotes, escaped as a string
\* value of the same content is, then the delimiter; the opening bracket
\* of a nested writer comes right after that. Every such call, and every
\* value, object, array and write_comma of an array writer, leaves
\* the writer non-empty.
C22_MemberPunctuation ==
    /\ \A id \in Ids : \A j \in 1..Len(hist[id].members) :
          LET h == hist[id]
              mem == h.members[j]
              lead == SeparatorText(id, j) \o (IF h.kind = "object" THEN KeyText(mem.key) ELSE <<>>)
              at == mem.start + Len(lead)
          IN  /\ mem.start = PrevEnd(id, j)
              /\ at <= mem.stop
              /\ SubSeq(Buf, mem.start + 1, at) = lead
              /\ h.kind = "object" =>
                    QuotedText(mem.key) = write_json(StrValue(mem.key), NewString).buffer
              /\ mem.child # 0 =>
                    /\ mem.stop = at + 1
                    /\ Buf[mem.stop] = OpenByte(hist[mem.child].kind)
                    /\ hist[mem.child].openAt = mem.stop
    /\ \A i \in 1..Len(stack) : stack[i].empty = (hist[stack[i].id].members = <<>>)

\* C22 witness: an object writer on the compact sink holds a bare key, a
\* value and a nested array, in this order, each written with its key.
C22_Witness ==
    /\ sink.kind = "String"
    /\ Len(hist) = 2
    /\ hist[1].kind = "object"
    /\ Len(hist[1].members) = 3
    /\ hist[1].members[1].val.t = "none"
    /\ hist[1].members[2].val.t = "i32"
    /\ hist[1].members[3].child = 2
    /\ hist[1].members[3].key = <<QUOTE, LBRACE>>
    /\ hist[2].kind = "array"

\* C23: write_key appends the separator (absent before the first member),
\* the escaped key and the delimiter and nothing else (write_comma: the
\* separator alone), and leaves the writer non-empty. Nothing records
\* that the value is missing: the next member, another bare key
\* included, starts right behind it with its own separator, and a writer
\* ended right after a bare key closes as any non-empty writer does, the
\* text written before staying as it was.
C23_BareKey ==
    \A id \in Ids : \A j \in 1..Len(hist[id].members) :
        LET h == hist[id]
            mem == h.members[j]
            n == Len(h.members)
        IN  mem.val.t = "none" =>
              /\ mem.child = 0
              /\ SubSeq(Buf, mem.start + 1, mem.stop)
                    = SeparatorText(id, j) \o (IF h.kind = "object" THEN KeyText(mem.key) ELSE <<>>)
              /\ id \in Live => \A i \in 1..Len(stack) : stack[i].id = id => ~stack[i].empty
              /\ j < n => /\ h.members[j + 1].start = mem.stop
                          /\ SubSeq(Buf, mem.stop + 1, mem.stop + Len(SeparatorText(id, j + 1)))
                                = SeparatorText(id, j + 1)
                          /\ SeparatorText(id, j + 1)[1] = COMMA
              /\ (j = n /\ h.ended) =>
                    SubSeq(Buf, mem.stop + 1, h.closeAt)
                        = (IF sink.kind = "Pretty"
                           THEN <<NEWLINE>> \o Repeat(sink.indent, h.level - 1) ELSE <<>>)
                          \o <<CloseByte(h.kind)>>

\* C23 witness: on the compact sink an object writer has ended after two
\* bare keys in a row: the text is {"a":,"a":}
C23_Witness ==
    /\ sink.kind = "String"
    /\ Len(hist) = 1
    /\ hist[1].ended
    /\ Buf = <<LBRACE, QUOTE, 97, QUOTE, COLON, COMMA, QUOTE, 97, QUOTE, COLON, RBRACE>>
    /\ hist[1].members[1].val.t = "none"
    /\ hist[1].members[2].val.t = "none"

----------------------------------------------------------------------------
(* Quoting and concatenation, checked under SpecEscape.                    *)

\* C24: write_string appends a quote, then what write_part_of_string
\* appends for the same input, then a quote; and escaping a string in two
\* parts, cut between any two of its characters, appends the same text as
\* escaping it in one call.
C24_QuotesAndParts ==
    /\ epc = "quoted" =>
          \E fragment \in {write_part_of_string(<<>>, einput)} :
              EscAppended = <<QUOTE>> \o fragment \o <<QUOTE>>
    /\ epc = "part" =>
          \A k \in 0..Len(einput) :
              CharBoundary(einput, k) =>
                  \E first \in {write_part_of_string(eprefix, SubSeq(einput, 1, k))} :
                      write_part_of_string(first, SubSeq(einput, k + 1, Len(einput))) = eoutput

\* C24 witness: a newline, a two-byte character and a backslash have been
\* escaped in one call; the parts cut before and after the character give
\* the same six bytes.
C24_Witness ==
    /\ epc = "part"
    /\ einput = <<NEWLINE, 195, 164, BACKSLASH>>
    /\ EscAppended = <<BACKSLASH, 110, 195, 164, BACKSLASH, BACKSLASH>>

----------------------------------------------------------------------------
(* The buffer only grows, checked under SpecFlush.                         *)

\* the call of this step was a flush whose external write succeeded
FlushedNow == flush'.called /\ flush'.raised = "none"

----------------------------------------------------------------------------
(* The overrides of String against the defaults of the trait, checked      *)
(* under SpecSink.                                                         *)

\* C26: on a String, each of json_begin_object, json_end_object,
\* json_begin_array, json_end_array, json_begin_array_value and
\* json_object_key leaves the buffer that the default body of the trait
\* leaves, run on the same buffer with the same arguments, for both values
\* of first and empty and every key.
C26_OverridesAreDefaults ==
    [][sink.kind = "String" =>
          /\ \A kind \in Kinds :
                CallBegin(kind) =>
                    sink' = JSONWriter_default(IF kind = "object" THEN "json_begin_object"
                                               ELSE "json_begin_array", sink, NoKey, FALSE)
          /\ \A kind \in Kinds : \A empty \in BOOLEAN :
                CallEnd(kind, empty) =>
                    sink' = JSONWriter_default(IF kind = "object" THEN "json_end_object"
                                               ELSE "json_end_array", sink, NoKey, empty)
          /\ \A first \in BOOLEAN :
                /\ CallSeparator(NoKey, first) =>
                      sink' = JSONWriter_default("json_begin_array_value", sink, NoKey, first)
                /\ \A key \in Keys :
                      CallSeparator(key, first) =>
                          sink' = JSONWriter_default("json_object_key", sink, key, first)]_vars

\* C26 witness: on a String, json_object_key was called with first = false
\* and a key that holds a quote, after json_begin_array_value with first =
\* false: the buffer is ,,"\"{":
C26_Witness ==
    /\ sink.kind = "String"
    /\ sink.buffer = <<COMMA, COMMA, QUOTE, BACKSLASH, QUOTE, LBRACE, QUOTE, COLON>>
    /\ shadow.ops = 2

====
